---------------------------- MODULE Spec2Model ----------------------------
(***************************************************************************)
(* A model of the personal-finance backend: the Record Store (Income,     *)
(* Expense, Debt, FutureSaving rows and the Category Catalog), the        *)
(* dashboard aggregation of api/views.py (dashboard_view) and the two CSV *)
(* importers (ImportDataView.post in api/views.py, the 2-type mode, and   *)
(* in financial_category/views.py, the 4-type mode).                      *)
(*                                                                         *)
(* Conventions.                                                            *)
(*  - A date is its proleptic Gregorian ordinal (datetime.date.toordinal): *)
(*    day 1 is 0001-01-01.  Times of day and time zones are left out: the  *)
(*    window arithmetic of dashboard_view keeps the time of day unchanged. *)
(*  - A money amount is a whole number of cents (DecimalField with two     *)
(*    decimal places); float() of it is order-preserving.                  *)
(*  - A text is a sequence of one-character strings, so that lower(),      *)
(*    strip(), replace(), endswith() and the parsers act on characters.    *)
(*  - None (Python) and NULL (SQL) are Null, NoText, NoId or NoDate.       *)
(***************************************************************************)
EXTENDS Integers, Sequences, FiniteSets, TLC

\* None / NULL, by the kind of value it stands in for: a string, a text, a
\* row id, a date.  Row ids and date ordinals start at 1.
Null == "None"
NoText == <<"None">>
NoId == 0
NoDate == 0

(***************************************************************************)
(* Calendar: datetime.date arithmetic as the handlers use it.              *)
(***************************************************************************)
IsLeap(y) == (y % 4 = 0) /\ ((y % 100 # 0) \/ (y % 400 = 0))

DaysInMonth(y, m) ==
    IF m = 2 THEN (IF IsLeap(y) THEN 29 ELSE 28)
    ELSE IF m \in {4, 6, 9, 11} THEN 30 ELSE 31

DaysBeforeYear(y) ==
    LET p == y - 1 IN p * 365 + (p \div 4) - (p \div 100) + (p \div 400)

\* The days of a common year before each month.
DaysBeforeMonthTable == <<0, 31, 59, 90, 120, 151, 181, 212, 243, 273, 304, 334>>

DaysBeforeMonth(y, m) ==
    DaysBeforeMonthTable[m] + (IF m > 2 /\ IsLeap(y) THEN 1 ELSE 0)

\* datetime(y, m, d) is a date; otherwise the constructor raises ValueError.
ValidYmd(y, m, d) ==
    /\ y \in 1..9999
    /\ m \in 1..12
    /\ d >= 1
    /\ d <= DaysInMonth(y, m)

Ord(y, m, d) == DaysBeforeYear(y) + DaysBeforeMonth(y, m) + d

YearOf(n) ==
    LET n0   == n - 1
        n400 == n0 \div 146097
        r400 == n0 % 146097
        n100 == r400 \div 36524
        r100 == r400 % 36524
        n4   == r100 \div 1461
        r4   == r100 % 1461
        n1   == r4 \div 365
        y    == n400 * 400 + 1 + n100 * 100 + n4 * 4 + n1
    IN  IF n1 = 4 \/ n100 = 4 THEN y - 1 ELSE y

\* The month of day k (1-based) of year y: an estimate that is never too
\* small and at most one too large, then corrected.
MonthOfYearDay(y, k) ==
    LET m == (k + 49) \div 32
    IN  IF DaysBeforeMonth(y, m) >= k THEN m - 1 ELSE m

MonthOf(n) ==
    LET y == YearOf(n) IN MonthOfYearDay(y, n - DaysBeforeYear(y))

DayOf(n) ==
    LET y == YearOf(n)
        k == n - DaysBeforeYear(y)
    IN  k - DaysBeforeMonth(y, MonthOfYearDay(y, k))

\* date.weekday(): Monday is 0, Sunday is 6.
Weekday(n) == (n + 6) % 7

(***************************************************************************)
(* Texts: Python str operations, character by character.                   *)
(***************************************************************************)
UpperLetters == <<"A","B","C","D","E","F","G","H","I","J","K","L","M",
                  "N","O","P","Q","R","S","T","U","V","W","X","Y","Z">>
LowerLetters == <<"a","b","c","d","e","f","g","h","i","j","k","l","m",
                  "n","o","p","q","r","s","t","u","v","w","x","y","z">>
Digits == <<"0","1","2","3","4","5","6","7","8","9">>
Whitespace == {" ", "\t", "\n", "\r"}

LowerChar(c) ==
    IF \E i \in 1..26 : UpperLetters[i] = c
    THEN LowerLetters[CHOOSE i \in 1..26 : UpperLetters[i] = c]
    ELSE c

\* str.lower()
Lower(t) == [i \in 1..Len(t) |-> LowerChar(t[i])]

RECURSIVE LStrip(_)
LStrip(t) == IF t # <<>> /\ Head(t) \in Whitespace THEN LStrip(Tail(t)) ELSE t

RECURSIVE RStrip(_)
RStrip(t) ==
    IF t # <<>> /\ t[Len(t)] \in Whitespace THEN RStrip(SubSeq(t, 1, Len(t) - 1)) ELSE t

\* str.strip()
Strip(t) == RStrip(LStrip(t))

\* str.replace(c, '')
RemoveChar(t, c) == SelectSeq(t, LAMBDA x : x # c)

\* str.endswith(suffix)
EndsWith(t, suffix) ==
    /\ Len(t) >= Len(suffix)
    /\ SubSeq(t, Len(t) - Len(suffix) + 1, Len(t)) = suffix

\* needle in hay
Contains(hay, needle) ==
    \E i \in 0..(Len(hay) - Len(needle)) : SubSeq(hay, i + 1, i + Len(needle)) = needle

\* name__icontains=needle
IContains(hay, needle) == Contains(Lower(hay), Lower(needle))

IsDigit(c) == \E i \in 1..10 : Digits[i] = c
DigitVal(c) == (CHOOSE i \in 1..10 : Digits[i] = c) - 1
AllDigits(t) == \A i \in 1..Len(t) : IsDigit(t[i])

RECURSIVE NatVal(_)
NatVal(t) == IF t = <<>> THEN 0 ELSE NatVal(SubSeq(t, 1, Len(t) - 1)) * 10 + DigitVal(t[Len(t)])

\* str.split(sep) for a one-character separator
RECURSIVE Split(_, _)
Split(t, sep) ==
    IF \E i \in 1..Len(t) : t[i] = sep
    THEN LET i == CHOOSE k \in 1..Len(t) : t[k] = sep /\ \A j \in 1..(k - 1) : t[j] # sep
         IN  <<SubSeq(t, 1, i - 1)>> \o Split(SubSeq(t, i + 1, Len(t)), sep)
    ELSE <<t>>

(***************************************************************************)
(* float(text): the decimal literals the model's inputs use, an optional   *)
(* sign, digits and at most two decimals (no exponent, no nan or inf).     *)
(* ok is FALSE for ValueError; val is the value in cents.                  *)
(***************************************************************************)
FloatOfText(t) ==
    LET s      == Strip(t)
        signed == s # <<>> /\ Head(s) \in {"+", "-"}
        body   == IF signed THEN Tail(s) ELSE s
        parts  == Split(body, ".")
        ip     == parts[1]
        fp     == IF Len(parts) = 2 THEN parts[2] ELSE <<>>
        ok     == /\ Len(parts) \in {1, 2}
                  /\ AllDigits(ip) /\ AllDigits(fp)
                  /\ Len(ip) + Len(fp) >= 1
                  /\ Len(fp) <= 2
        cents  == NatVal(ip) * 100
                  + (IF Len(fp) = 1 THEN NatVal(fp) * 10 ELSE NatVal(fp))
    IN  IF ~ok THEN [ok |-> FALSE, val |-> 0]
        ELSE [ok |-> TRUE, val |-> IF signed /\ Head(s) = "-" THEN 0 - cents ELSE cents]

(***************************************************************************)
(* datetime.strptime(text, fmt) for the three formats the code uses.  The  *)
(* result is the date's ordinal; NoDate stands for ValueError.             *)
(***************************************************************************)
\* %Y: exactly four digits
MatchY(f) == Len(f) = 4 /\ AllDigits(f)
\* Variant of %m that takes two digits only.
MatchMPadded(f) == Len(f) = 2 /\ AllDigits(f) /\ NatVal(f) \in 1..12
\* %m: 1[0-2] | 0[1-9] | [1-9]
MatchM(f) == Len(f) \in {1, 2} /\ AllDigits(f) /\ NatVal(f) \in 1..12
\* %d: 3[01] | [12]\d | 0[1-9] | [1-9] | " "[1-9]
MatchD(f) ==
    \/ Len(f) \in {1, 2} /\ AllDigits(f) /\ NatVal(f) \in 1..31
    \/ Len(f) = 2 /\ f[1] = " " /\ IsDigit(f[2]) /\ DigitVal(f[2]) >= 1
DVal(f) == IF f[1] = " " THEN DigitVal(f[2]) ELSE NatVal(f)

Strptime(t, fmt) ==
    LET sep == IF fmt = "%Y-%m-%d" THEN "-" ELSE "/"
        p   == Split(t, sep)
        iy  == IF fmt = "%Y-%m-%d" THEN 1 ELSE 3
        im  == IF fmt = "%Y-%m-%d" THEN 2 ELSE IF fmt = "%m/%d/%Y" THEN 1 ELSE 2
        id  == IF fmt = "%Y-%m-%d" THEN 3 ELSE IF fmt = "%m/%d/%Y" THEN 2 ELSE 1
    IN  IF Len(p) # 3 THEN NoDate
        ELSE IF ~(MatchY(p[iy]) /\ MatchM(p[im]) /\ MatchD(p[id])) THEN NoDate
        ELSE IF ~ValidYmd(NatVal(p[iy]), NatVal(p[im]), DVal(p[id])) THEN NoDate
        ELSE Ord(NatVal(p[iy]), NatVal(p[im]), DVal(p[id]))

(***************************************************************************)
(* The Record Store and the request being served.                          *)
(*   categories  FinancialCategory rows [id, name, type]                   *)
(*   incomes, expenses   rows [id, user, category, name, description,      *)
(*                              amount, date], in insertion (id) order     *)
(*   debts       rows [id, user, category, name, description, amount,      *)
(*                     paid_amount, due_date]                              *)
(*   savings     rows [id, user, category, name, description,              *)
(*                     target_amount, current_amount, target_date]         *)
(*   req, resp   the request in service and the response it is given: a    *)
(*               handler runs as one step, then the response is sent       *)
(***************************************************************************)
VARIABLES categories, incomes, expenses, debts, savings, req, resp

store == <<categories, incomes, expenses, debts, savings>>
vars == <<categories, incomes, expenses, debts, savings, req, resp>>

CATEGORY_TYPES == {"income", "expense", "debt", "saving"}

MonthNames == <<"January", "February", "March", "April", "May", "June", "July",
                "August", "September", "October", "November", "December">>

\* strftime('%d %B %Y') and strftime('%B %Y')
FormatDay(n) == <<DayOf(n), MonthNames[MonthOf(n)], YearOf(n)>>
FormatMonth(n) == <<MonthNames[MonthOf(n)], YearOf(n)>>

\* expense.category (select_related), for a row that has one
CategoryOf(row) == CHOOSE c \in categories : c.id = row.category

\* values('category__name'), category__type: NULL for a row without category
CategoryName(row) == IF row.category = NoId THEN NoText ELSE CategoryOf(row).name
CategoryType(row) == IF row.category = NoId THEN Null ELSE CategoryOf(row).type

\* aggregate(total=Sum(field))['total'] or 0, over the rows of `rows` at `idx`
RECURSIVE SumAt(_, _)
SumAt(amt, idx) ==
    IF idx = {} THEN 0
    ELSE LET i == CHOOSE x \in idx : TRUE IN amt[i] + SumAt(amt, idx \ {i})

\* sum(item[field] for item in items); the additions are grouped by halves,
\* which gives the same whole number of cents as adding left to right.  The
\* sequence is bound to v so that it is worked out once at each level.
RECURSIVE SumSeq(_)
SumSeq(xs) ==
    CHOOSE total \in
        {IF v = <<>> THEN 0
         ELSE IF Len(v) = 1 THEN v[1]
         ELSE SumSeq(SubSeq(v, 1, Len(v) \div 2))
                + SumSeq(SubSeq(v, Len(v) \div 2 + 1, Len(v))) : v \in {xs}} : TRUE

Amounts(rows) == [i \in 1..Len(rows) |-> rows[i].amount]

(***************************************************************************)
(* An ORDER BY that leaves ties to the database, and Python's stable sort  *)
(* of rows fetched without ORDER BY: every arrangement of `idx` in which   *)
(* no element comes after one it must precede: before[<<i, j>>] says that  *)
(* i may stand before j (its key is not on the wrong side of j's).         *)
(***************************************************************************)
RECURSIVE Arrangements(_, _)
Arrangements(idx, before) ==
    IF idx = {} THEN {<<>>}
    ELSE LET firsts == {i \in idx : \A j \in idx : before[<<i, j>>]}
         IN  UNION {{<<i>> \o r : r \in Arrangements(idx \ {i}, before)} : i \in firsts}

\* ORDER BY key DESC / sort(reverse=True), and sort() ascending, on whole numbers
\* of the elements of DOMAIN key
Descending(key) ==
    Arrangements(DOMAIN key, [p \in (DOMAIN key) \X (DOMAIN key) |-> key[p[1]] >= key[p[2]]])

\* A percentage n/d * 100 is kept exact, as the fraction [num, den], den > 0.
Pct(n, d) == [num |-> n * 100, den |-> d]
PctZero == [num |-> 0, den |-> 1]
PctLE(p, q) == p.num * q.den <= q.num * p.den
PctEq(p, q) == p.num * q.den = q.num * p.den

(***************************************************************************)
(* dashboard_view: window resolution.                                      *)
(***************************************************************************)
Txt_Both == "Both start_date and end_date are required for custom period"
Txt_Format == "Invalid date format. Use YYYY-MM-DD format for custom dates."
Txt_Period == "Invalid period. Use week, month, year, or custom"

\* request.GET.get('period', 'month')
EffectivePeriod(param) == IF param = Null THEN "month" ELSE param

\* `not start_date`: the parameter is absent or empty
Falsy(text) == text = NoText \/ text = <<>>

\* Variant of the week window that starts the week on Sunday.
WeekWindowFromSunday(t) ==
    LET start == t - ((Weekday(t) + 1) % 7)
    IN  [status |-> 200, start |-> start, end |-> start + 6]

\* today - timedelta(days=today.weekday()), plus six days
WeekWindow(t) ==
    LET start == t - Weekday(t)
    IN  [status |-> 200, start |-> start, end |-> start + 6]

MonthWindow(t) ==
    LET start == Ord(YearOf(t), MonthOf(t), 1)
        nxt   == start + 32
    IN  [status |-> 200, start |-> start,
         end |-> Ord(YearOf(nxt), MonthOf(nxt), 1) - 1]

YearWindow(t) ==
    [status |-> 200, start |-> Ord(YearOf(t), 1, 1), end |-> Ord(YearOf(t), 12, 31)]

CustomWindow(sd, ed) ==
    IF Falsy(sd) \/ Falsy(ed) THEN [status |-> 400, error |-> Txt_Both]
    ELSE LET s == Strptime(sd, "%Y-%m-%d")
             e == Strptime(ed, "%Y-%m-%d")
         IN  IF s = NoDate \/ e = NoDate THEN [status |-> 400, error |-> Txt_Format]
             ELSE [status |-> 200, start |-> s, end |-> e]

ResolveWindow(period, sd, ed, t) ==
    CASE period = "week"   -> WeekWindow(t)
      [] period = "month"  -> MonthWindow(t)
      [] period = "year"   -> YearWindow(t)
      [] period = "custom" -> CustomWindow(sd, ed)
      [] OTHER             -> [status |-> 400, error |-> Txt_Period]

(***************************************************************************)
(* dashboard_view: the income series.                                      *)
(***************************************************************************)
\* period == 'year' or (period == 'custom' and (end_date - start_date).days > 365)
MonthlyBuckets(period, w) ==
    period = "year" \/ (period = "custom" /\ w.end - w.start > 365)

\* Income.objects.filter(user, date__year, date__month).aggregate(Sum('amount'))
MonthIncome(u, y, m) ==
    SumAt(Amounts(incomes),
          {i \in 1..Len(incomes) :
              /\ incomes[i].user = u
              /\ YearOf(incomes[i].date) = y
              /\ MonthOf(incomes[i].date) = m})

\* Variant of the income of a day that is not filtered by user.
DayIncomeOfAll(u, n) ==
    SumAt(Amounts(incomes), {i \in 1..Len(incomes) : incomes[i].date = n})

\* Income.objects.filter(user, date=current_date).aggregate(Sum('amount'))
DayIncome(u, n) ==
    SumAt(Amounts(incomes),
          {i \in 1..Len(incomes) : incomes[i].user = u /\ incomes[i].date = n})

\* current_date.replace(month=current_date.month + 1), or year + 1 and month 1:
\* the same day of the next month, NoDate where that day does not exist (ValueError).
NextMonth(n) ==
    LET y  == YearOf(n)
        m  == MonthOf(n)
        d  == DayOf(n)
        ny == IF m = 12 THEN y + 1 ELSE y
        nm == IF m = 12 THEN 1 ELSE m + 1
    IN  IF ValidYmd(ny, nm, d) THEN Ord(ny, nm, d) ELSE NoDate

\* The month loop; ok is FALSE when stepping to the next month raised.
RECURSIVE MonthSeries(_, _, _)
MonthSeries(u, cur, end) ==
    IF cur > end THEN [ok |-> TRUE, data |-> <<>>]
    ELSE LET bucket == [date   |-> FormatMonth(cur),
                        amount |-> MonthIncome(u, YearOf(cur), MonthOf(cur))]
             nxt    == NextMonth(cur)
         IN  IF nxt = NoDate THEN [ok |-> FALSE, data |-> <<bucket>>]
             ELSE LET rest == MonthSeries(u, nxt, end)
                  IN  [ok |-> rest.ok, data |-> <<bucket>> \o rest.data]

\* Variant of the day loop that runs from the earlier to the later date.
DaySeriesEitherWay(u, start, end) ==
    LET lo == IF start <= end THEN start ELSE end
        hi == IF start <= end THEN end ELSE start
    IN  [k \in 1..(hi - lo + 1) |->
            [date |-> FormatDay(lo + k - 1), amount |-> DayIncome(u, lo + k - 1)]]

\* Variant of the day loop that stops before the end date.
DaySeriesExclusive(u, start, end) ==
    [k \in 1..(IF end > start THEN end - start ELSE 0) |->
        [date |-> FormatDay(start + k - 1), amount |-> DayIncome(u, start + k - 1)]]

\* The day loop: one bucket per day from start to end.
DaySeries(u, start, end) ==
    [k \in 1..(IF end >= start THEN end - start + 1 ELSE 0) |->
        [date |-> FormatDay(start + k - 1), amount |-> DayIncome(u, start + k - 1)]]

IncomeSeries(u, period, w) ==
    IF MonthlyBuckets(period, w) THEN MonthSeries(u, w.start, w.end)
    ELSE [ok |-> TRUE, data |-> DaySeries(u, w.start, w.end)]

BucketAmounts(data) == [k \in 1..Len(data) |-> data[k].amount]

\* Variant of the total that reports the last bucket only.
TotalIncomeOfLast(data) == IF data = <<>> THEN 0 ELSE data[Len(data)].amount

\* total_income = sum(item['amount'] for item in income_data)
TotalIncome(data) == SumSeq(BucketAmounts(data))

(***************************************************************************)
(* dashboard_view: expenses.                                               *)
(***************************************************************************)
T_Unnamed == <<"U","n","n","a","m","e","d"," ","E","x","p","e","n","s","e">>
T_Uncategorized == <<"U","n","c","a","t","e","g","o","r","i","z","e","d">>
TopN == 5
RelatedN == 3

\* Expense.objects.filter(user=user, date__range=[start_date, end_date])
ExpensesInRange(u, w) ==
    {i \in 1..Len(expenses) :
        /\ expenses[i].user = u
        /\ expenses[i].date >= w.start
        /\ expenses[i].date <= w.end}

\* expenses.aggregate(total=Sum('amount'))['total'] or 0.0
TotalExpenses(E) == SumAt(Amounts(expenses), E)

\* Variant of the category total that sums every expense of the window.
CategoryTotalOfAll(E, name) == SumAt(Amounts(expenses), E)

\* expenses.filter(category__name=name).aggregate(Sum('amount')) or 0
CategoryTotal(E, name) ==
    SumAt(Amounts(expenses), {i \in E : CategoryName(expenses[i]) = name})

\* values('category__name').annotate(amount=Sum('amount')): one group per
\* category name, the rows without a category forming the group NULL.
GroupTotal(E, name) ==
    SumAt(Amounts(expenses), {i \in E : CategoryName(expenses[i]) = name})

GroupNames(E) == {CategoryName(expenses[i]) : i \in E}

\* Variant of the loop over category_totals that keeps the group NULL.
CategoryEntriesAll(E, order) ==
    [k \in 1..Len(order) |-> [category |-> order[k], amount |-> GroupTotal(E, order[k])]]

\* for category in category_totals: if category['category__name']: append
RECURSIVE CategoryEntries(_, _)
CategoryEntries(E, order) ==
    IF order = <<>> THEN <<>>
    ELSE (IF Falsy(Head(order)) THEN <<>>
          ELSE <<[category |-> Head(order), amount |-> GroupTotal(E, Head(order))]>>)
         \o CategoryEntries(E, Tail(order))

\* ... .order_by('-amount'), every order the database may return
ExpenseCategoriesOf(E) ==
    {CategoryEntries(E, order) :
        order \in Descending([n \in GroupNames(E) |-> GroupTotal(E, n)])}

ExpenseAmount(i) == expenses[i].amount

\* Variant of the top expenses that is not cut to five.
TopOrdersUncut(E) == Descending([i \in E |-> ExpenseAmount(i)])

\* expenses.order_by('-amount')[:5], every order the database may return
TopOrders(E) ==
    {SubSeq(o, 1, IF Len(o) < TopN THEN Len(o) ELSE TopN) :
        o \in Descending([i \in E |-> ExpenseAmount(i)])}

TopEntry(i) ==
    [name     |-> IF expenses[i].name # <<>> THEN expenses[i].name ELSE T_Unnamed,
     amount   |-> expenses[i].amount,
     category |-> IF expenses[i].category # NoId THEN CategoryName(expenses[i])
                  ELSE T_Uncategorized,
     date     |-> FormatDay(expenses[i].date)]

TopExpenses(order) == [k \in 1..Len(order) |-> TopEntry(order[k])]

RelatedItem(i) ==
    [name   |-> IF expenses[i].name # <<>> THEN expenses[i].name ELSE T_Unnamed,
     amount |-> expenses[i].amount,
     date   |-> FormatDay(expenses[i].date)]

Range(f) == {f[k] : k \in DOMAIN f}

\* expenses.filter(category__name=category).exclude(id__in=top five)
\*         .order_by('-amount')[:3]; the top five are queried again here.
RelatedItemsOf(E, name) ==
    UNION {
        {[k \in 1..(IF Len(o) < RelatedN THEN Len(o) ELSE RelatedN) |-> RelatedItem(o[k])] :
            o \in Descending([i \in {j \in E : CategoryName(expenses[j]) = name} \ Range(top)
                                 |-> ExpenseAmount(i)])} :
        top \in TopOrders(E)}

\* The loop over sorted_categories; a category without items is left out.
RECURSIVE RelatedEntries(_, _)
RelatedEntries(E, cats) ==
    IF cats = <<>> THEN {<<>>}
    ELSE {(IF items = <<>> THEN <<>>
           ELSE <<[category |-> Head(cats),
                   total    |-> CategoryTotal(E, Head(cats)),
                   items    |-> items]>>) \o rest :
            items \in RelatedItemsOf(E, Head(cats)),
            rest \in RelatedEntries(E, Tail(cats))}

\* top_categories, sorted(top_categories, key=category_totals, reverse=True)
RelatedExpensesOf(E, top) ==
    UNION {RelatedEntries(E, cats) :
        cats \in Descending([n \in {top[k].category : k \in 1..Len(top)}
                                |-> CategoryTotal(E, n)])}

(***************************************************************************)
(* dashboard_view: debt progress.                                          *)
(***************************************************************************)
\* Variant of the period payments that counts expenses of every category.
PeriodPaymentsOfAnyType(u, w, name) ==
    SumAt(Amounts(expenses),
          {i \in 1..Len(expenses) :
              /\ expenses[i].user = u
              /\ expenses[i].date >= w.start
              /\ expenses[i].date <= w.end
              /\ IContains(expenses[i].name, name)})

\* Expense.objects.filter(user, category__type='debt', date__range,
\*                        name__icontains=debt.name).aggregate(Sum) or 0.0
PeriodPayments(u, w, name) ==
    SumAt(Amounts(expenses),
          {i \in 1..Len(expenses) :
              /\ expenses[i].user = u
              /\ CategoryType(expenses[i]) = "debt"
              /\ expenses[i].date >= w.start
              /\ expenses[i].date <= w.end
              /\ IContains(expenses[i].name, name)})

\* (x / total * 100) if total else 0
PctOrZero(x, total) == IF total # 0 THEN Pct(x, total) ELSE PctZero

DebtEntry(u, w, d) ==
    [name            |-> d.name,
     total_amount    |-> d.amount,
     paid_amount     |-> d.paid_amount,
     paid_percentage |-> PctOrZero(d.paid_amount, d.amount),
     period_stats    |->
        [paid_amount      |-> PeriodPayments(u, w, d.name),
         paid_percentage  |-> PctOrZero(PeriodPayments(u, w, d.name), d.amount),
         remaining_amount |-> d.amount - d.paid_amount,
         start_date       |-> FormatDay(w.start),
         end_date         |-> FormatDay(w.end)]]

\* Variant of the filter that lists every debt of the user.
DebtOwned(u, d) == d.user = u

\* for debt in Debt.objects.filter(user=user): if debt.amount > 0
DebtListed(u, d) == d.user = u /\ d.amount > 0

\* Variant of the sort key: the total amount.
DebtSortKeyTotal(d) == d.amount

\* key=lambda x: x['total_amount'] - x['paid_amount']
DebtSortKey(d) == d.amount - d.paid_amount

\* debt_progress.sort(key=..., reverse=True)
DebtProgressOf(u, w) ==
    {[k \in 1..Len(o) |-> DebtEntry(u, w, debts[o[k]])] :
        o \in Descending([i \in {j \in 1..Len(debts) : DebtListed(u, debts[j])}
                             |-> DebtSortKey(debts[i])])}

(***************************************************************************)
(* dashboard_view: savings goals.                                          *)
(***************************************************************************)
MaxOrdinal == 3652059    \* date.max.toordinal(), 9999-12-31

\* Income.objects.filter(user, category__type='saving', date__range,
\*                       name__icontains=saving.name).aggregate(Sum) or 0.0
PeriodSavings(u, w, name) ==
    SumAt(Amounts(incomes),
          {i \in 1..Len(incomes) :
              /\ incomes[i].user = u
              /\ CategoryType(incomes[i]) = "saving"
              /\ incomes[i].date >= w.start
              /\ incomes[i].date <= w.end
              /\ IContains(incomes[i].name, name)})

\* if period_savings > 0 and period in ['month', 'year']
Projects(period, ps) == ps > 0 /\ period \in {"month", "year"}

\* today + timedelta(days=months_to_complete * 30), with months_to_complete =
\* remaining / (period_savings / 30) or / (period_savings / 365); whole days.
CompletionDay(period, t, s, ps) ==
    t + ((s.target_amount - s.current_amount)
            * (IF period = "month" THEN 30 ELSE 365) * 30) \div ps

\* The date arithmetic overflows (OverflowError) outside date.min .. date.max.
CompletionOverflows(period, t, s, ps) ==
    /\ Projects(period, ps)
    /\ CompletionDay(period, t, s, ps) \notin 1..MaxOrdinal

SavingEntry(u, period, w, t, s) ==
    LET ps == PeriodSavings(u, w, s.name)
    IN  [name                |-> s.name,
         current_amount      |-> s.current_amount,
         target_amount       |-> s.target_amount,
         progress_percentage |-> PctOrZero(s.current_amount, s.target_amount),
         period_stats        |->
            [saved_amount     |-> ps,
             saved_percentage |-> PctOrZero(ps, s.target_amount),
             remaining_amount |-> s.target_amount - s.current_amount,
             start_date       |-> FormatDay(w.start),
             end_date         |-> FormatDay(w.end),
             estimated_completion_date |->
                IF Projects(period, ps) /\ ~CompletionOverflows(period, t, s, ps)
                THEN FormatMonth(CompletionDay(period, t, s, ps))
                ELSE <<Null, 0>>]]

\* Variant of the filter that lists every goal of the user.
SavingOwned(u, s) == s.user = u

\* for saving in FutureSaving.objects.filter(user=user): if saving.target_amount > 0
SavingListed(u, s) == s.user = u /\ s.target_amount > 0

\* key=lambda x: x['progress_percentage']
SavingSortKey(s) == PctOrZero(s.current_amount, s.target_amount)

SavingsOverflow(u, period, w, t) ==
    \E i \in 1..Len(savings) :
        /\ SavingListed(u, savings[i])
        /\ CompletionOverflows(period, t, savings[i], PeriodSavings(u, w, savings[i].name))

\* savings_goals.sort(key=...)
SavingsGoalsOf(u, period, w, t) ==
    {[k \in 1..Len(o) |-> SavingEntry(u, period, w, t, savings[o[k]])] :
        o \in LET idx == {i \in 1..Len(savings) : SavingListed(u, savings[i])}
              IN  Arrangements(idx, [p \in idx \X idx |->
                      PctLE(SavingSortKey(savings[p[1]]), SavingSortKey(savings[p[2]]))])}

(***************************************************************************)
(* dashboard_view: the responses the handler may give to a request of      *)
(* user u at clock reading t (more than one only where the database is     *)
(* free to order equal keys).                                              *)
(***************************************************************************)
Txt_DayRange == "day is out of range for month"
Txt_DateRange == "date value out of range"

DebtTotals(dp) == [k \in 1..Len(dp) |-> dp[k].total_amount]
SavingCurrents(sg) == [k \in 1..Len(sg) |-> sg[k].current_amount]

DashboardBody(u, period, w, t) ==
    UNION {
        IF ~series.ok THEN {[kind |-> "dashboard", status |-> 500, error |-> Txt_DayRange]}
        ELSE IF SavingsOverflow(u, period, w, t)
        THEN {[kind |-> "dashboard", status |-> 500, error |-> Txt_DateRange]}
        ELSE UNION {
            {[kind               |-> "dashboard",
              status             |-> 200,
              total_income       |-> TotalIncome(series.data),
              total_expenses     |-> TotalExpenses(E),
              total_debt         |-> SumSeq(DebtTotals(dp)),
              total_savings      |-> SumSeq(SavingCurrents(sg)),
              income_data        |-> series.data,
              expense_categories |-> ec,
              top_expenses       |-> TopExpenses(top),
              debt_progress      |-> dp,
              savings_goals      |-> sg,
              related_expenses   |-> rel] :
                ec \in ExpenseCategoriesOf(E),
                dp \in DebtProgressOf(u, w),
                sg \in SavingsGoalsOf(u, period, w, t),
                rel \in RelatedExpensesOf(E, TopExpenses(top))} :
            top \in TopOrders(E)} :
        series \in {IncomeSeries(u, period, w)}, E \in {ExpensesInRange(u, w)}}

\* The window is resolved first; a request it refuses is answered 400.
DashboardResponses(u, param, sd, ed, t) ==
    UNION {
        IF w.status = 400 THEN {[kind |-> "dashboard", status |-> 400, error |-> w.error]}
        ELSE DashboardBody(u, EffectivePeriod(param), w, t) :
        w \in {ResolveWindow(EffectivePeriod(param), sd, ed, t)}}

(***************************************************************************)
(* Inputs of the model: the users, the catalog, and the small sets the     *)
(* requests draw their fields from.                                        *)
(***************************************************************************)
MaxRecords == 2          \* rows in the Record Store, all tables together

Users == {"alice", "bob"}

T_Food == <<"F","o","o","d">>
T_Rent == <<"R","e","n","t">>
T_Loan == <<"L","o","a","n">>
T_Fund == <<"F","u","n","d">>
T_Salary == <<"S","a","l","a","r","y">>
T_Car == <<"C","a","r">>
T_CarLower == <<"m","y"," ","c","a","r">>

Catalog ==
    {[id |-> 1, name |-> T_Food,   type |-> "expense"],
     [id |-> 2, name |-> T_Rent,   type |-> "expense"],
     [id |-> 3, name |-> T_Loan,   type |-> "debt"],
     [id |-> 4, name |-> T_Fund,   type |-> "saving"],
     [id |-> 5, name |-> T_Salary, type |-> "income"]}

CategoryIds(types) == {c.id : c \in {x \in categories : x.type \in types}}

NumRecords == Len(incomes) + Len(expenses) + Len(debts) + Len(savings)

NoResp == [kind |-> "none", status |-> 0]
NoReq == [kind |-> "none"]

\* Requests are served one at a time.
Idle == req = NoReq /\ resp = NoResp

\* The response leaves the server.
Respond ==
    /\ ~Idle
    /\ req' = NoReq
    /\ resp' = NoResp
    /\ UNCHANGED <<categories, incomes, expenses, debts, savings>>

(***************************************************************************)
(* The transaction endpoints (BaseTransactionViewSet and its serializers): *)
(* create binds the row to the requesting user; category_id is optional    *)
(* and restricted by each serializer's queryset.                           *)
(***************************************************************************)
Created == [kind |-> "create", status |-> 201]
Rejected == [kind |-> "update", status |-> 400]
Updated == [kind |-> "update", status |-> 200]

\* IncomeSerializer.category_id: queryset=FinancialCategory.objects.all()
IncomeCategoryChoices == {NoId} \cup CategoryIds(CATEGORY_TYPES)
\* ExpenseSerializer.category_id: queryset filter(type='expense')
ExpenseCategoryChoices == {NoId} \cup CategoryIds({"expense"})
\* DebtSerializer.category_id: queryset filter(type='debt')
DebtCategoryChoices == {NoId} \cup CategoryIds({"debt"})
\* FutureSavingSerializer.category_id: queryset filter(type='saving')
SavingCategoryChoices == {NoId} \cup CategoryIds({"saving"})

\* DebtSerializer.validate(data): data holds the fields the request gave
DebtValid(data) ==
    ~("paid_amount" \in DOMAIN data
      /\ data.paid_amount > (IF "amount" \in DOMAIN data THEN data.amount ELSE 0))

\* for attr, value in validated_data.items(): setattr(instance, attr, value)
SetAttrs(row, data) ==
    [f \in DOMAIN row |-> IF f \in DOMAIN data THEN data[f] ELSE row[f]]

CreateIncome(u, c, name, amount, date) ==
    /\ Idle
    /\ NumRecords < MaxRecords
    /\ c \in IncomeCategoryChoices
    /\ incomes' = Append(incomes,
          [id |-> Len(incomes) + 1, user |-> u, category |-> c, name |-> name,
           description |-> <<>>, amount |-> amount, date |-> date])
    /\ req' = [kind |-> "create", user |-> u]
    /\ resp' = Created
    /\ UNCHANGED <<categories, expenses, debts, savings>>

CreateExpense(u, c, name, amount, date) ==
    /\ Idle
    /\ NumRecords < MaxRecords
    /\ c \in ExpenseCategoryChoices
    /\ expenses' = Append(expenses,
          [id |-> Len(expenses) + 1, user |-> u, category |-> c, name |-> name,
           description |-> <<>>, amount |-> amount, date |-> date])
    /\ req' = [kind |-> "create", user |-> u]
    /\ resp' = Created
    /\ UNCHANGED <<categories, incomes, debts, savings>>

CreateDebt(u, c, name, amount, paid, due) ==
    /\ Idle
    /\ NumRecords < MaxRecords
    /\ c \in DebtCategoryChoices
    /\ DebtValid([amount |-> amount, paid_amount |-> paid])
    /\ debts' = Append(debts,
          [id |-> Len(debts) + 1, user |-> u, category |-> c, name |-> name,
           description |-> <<>>, amount |-> amount, paid_amount |-> paid,
           due_date |-> due])
    /\ req' = [kind |-> "create", user |-> u]
    /\ resp' = Created
    /\ UNCHANGED <<categories, incomes, expenses, savings>>

CreateSaving(u, c, name, target, current, date) ==
    /\ Idle
    /\ NumRecords < MaxRecords
    /\ c \in SavingCategoryChoices
    /\ savings' = Append(savings,
          [id |-> Len(savings) + 1, user |-> u, category |-> c, name |-> name,
           description |-> <<>>, target_amount |-> target,
           current_amount |-> current, target_date |-> date])
    /\ req' = [kind |-> "create", user |-> u]
    /\ resp' = Created
    /\ UNCHANGED <<categories, incomes, expenses, debts>>

\* DebtViewSet.get_queryset: the user's debts without category or with a debt one
DebtVisible(u, d) == d.user = u /\ (d.category = NoId \/ CategoryType(d) = "debt")

\* PATCH /debts/<id>/ (partial_update): validate, then DebtSerializer.update
PartialUpdateDebt(u, i, data) ==
    /\ Idle
    /\ i \in 1..Len(debts)
    /\ DebtVisible(u, debts[i])
    /\ req' = [kind |-> "update", user |-> u]
    /\ IF DebtValid(data)
       THEN debts' = [debts EXCEPT ![i] = SetAttrs(debts[i], data)] /\ resp' = Updated
       ELSE debts' = debts /\ resp' = Rejected
    /\ UNCHANGED <<categories, incomes, expenses, savings>>

(***************************************************************************)
(* GET /dashboard/ by user u; t is the handler's reading of the clock       *)
(* (today = timezone.now()).                                               *)
(***************************************************************************)
Dashboard(u, param, sd, ed, t) ==
    /\ Idle
    /\ req' = [kind |-> "dashboard", user |-> u, period |-> param,
               start_date |-> sd, end_date |-> ed, now |-> t]
    /\ resp' \in DashboardResponses(u, param, sd, ed, t)
    /\ UNCHANGED store

(***************************************************************************)
(* Inputs of the dashboard specifications.                                 *)
(***************************************************************************)
\* Clock readings: a Monday, the leap day (a Thursday), a Sunday, and a
\* Monday whose week runs into the next year.
ClockReadings == {Ord(2024, 2, 26), Ord(2024, 2, 29), Ord(2024, 3, 3), Ord(2024, 12, 30)}

T_20240228 == <<"2","0","2","4","-","0","2","-","2","8">>
T_20240302 == <<"2","0","2","4","-","0","3","-","0","2">>
T_20240230 == <<"2","0","2","4","-","0","2","-","3","0">>
T_2024228 == <<"2","0","2","4","-","2","-","2","8">>
T_03022024 == <<"0","3","/","0","2","/","2","0","2","4">>
T_20230115 == <<"2","0","2","3","-","0","1","-","1","5">>
T_20230131 == <<"2","0","2","3","-","0","1","-","3","1">>
T_20230301 == <<"2","0","2","3","-","0","3","-","0","1">>
T_20240229 == <<"2","0","2","4","-","0","2","-","2","9">>

\* <<start_date, end_date>> of the custom requests: a parameter absent or
\* empty, a short range, the same without zero padding, a reversed range, a
\* day that is not in the calendar, another format, a span of exactly 365
\* days, and two longer spans.
CustomRanges ==
    {<<NoText, NoText>>, <<T_20240228, NoText>>, <<<<>>, T_20240302>>,
     <<T_20240228, T_20240302>>, <<T_2024228, T_20240302>>,
     <<T_20240302, T_20240228>>,
     <<T_20240230, T_20240302>>, <<T_20240228, T_03022024>>,
     <<T_20230301, T_20240229>>, <<T_20230115, T_20240302>>,
     <<T_20230131, T_20240302>>}

\* The period parameter: absent, the three fixed periods, and two other values.
PlainPeriods == {Null, "week", "month", "year", "quarter", ""}

\* Stored dates: before a long custom range, before and inside a short one.
IncomeInputs ==
    ({"alice"} \X {NoId} \X {T_CarLower} \X {500, 1000}
        \X {Ord(2023, 1, 10), Ord(2024, 2, 27), Ord(2024, 3, 1)})
    \cup {<<"bob", NoId, T_CarLower, 500, Ord(2024, 3, 1)>>}

Init ==
    /\ categories = Catalog
    /\ incomes = <<>>
    /\ expenses = <<>>
    /\ debts = <<>>
    /\ savings = <<>>
    /\ req = NoReq
    /\ resp = NoResp

(***************************************************************************)
(* SpecIncome: incomes are created and the dashboard is asked for every    *)
(* period, range and clock reading.                                        *)
(***************************************************************************)
NextIncome ==
    \/ \E x \in IncomeInputs : CreateIncome(x[1], x[2], x[3], x[4], x[5])
    \/ \E p \in PlainPeriods, t \in ClockReadings : Dashboard("alice", p, NoText, NoText, t)
    \/ \E r \in CustomRanges, t \in ClockReadings : Dashboard("alice", "custom", r[1], r[2], t)
    \/ Respond

SpecIncome == Init /\ [][NextIncome]_vars

(***************************************************************************)
(* SpecLedger: expenses, debts, savings goals and the incomes paid into    *)
(* them are created and changed, and the dashboard is asked for the month  *)
(* and for two custom ranges.                                              *)
(***************************************************************************)
LedgerIncomeInputs ==
    {"alice"} \X {4} \X {T_CarLower} \X {500} \X {Ord(2024, 2, 27), Ord(2024, 3, 1)}

ExpenseInputs ==
    ({"alice"} \X {NoId, 1, 2} \X {T_CarLower} \X {500, 1000}
        \X {Ord(2024, 2, 27), Ord(2024, 3, 1)})
    \cup {<<"bob", 1, T_CarLower, 500, Ord(2024, 3, 1)>>}

\* <<user, <<amount, paid_amount>>>> and <<user, <<target_amount, current_amount>>>>
DebtInputs ==
    ({"alice"} \X {<<0, 0>>, <<1000, 0>>, <<1000, 500>>, <<2000, 500>>})
    \cup {<<"bob", <<1000, 0>>>>}

SavingInputs ==
    ({"alice"} \X {<<0, 0>>, <<1000, 0>>, <<1000, 500>>, <<2000, 500>>})
    \cup {<<"bob", <<1000, 0>>>>}

DebtPatches ==
    {[amount |-> 0], [paid_amount |-> 500], [amount |-> 1000, paid_amount |-> 500]}

LedgerRanges == {<<T_20240228, T_20240302>>, <<T_20240302, T_20240228>>}

NextLedger ==
    \/ \E x \in LedgerIncomeInputs : CreateIncome(x[1], x[2], x[3], x[4], x[5])
    \/ \E x \in ExpenseInputs : CreateExpense(x[1], x[2], x[3], x[4], x[5])
    \/ \E x \in DebtInputs :
          CreateDebt(x[1], NoId, T_Car, x[2][1], x[2][2], Ord(2024, 3, 1))
    \/ \E x \in SavingInputs :
          CreateSaving(x[1], NoId, T_Car, x[2][1], x[2][2], Ord(2024, 3, 1))
    \/ \E i \in 1..MaxRecords, data \in DebtPatches : PartialUpdateDebt("alice", i, data)
    \/ Dashboard("alice", "month", NoText, NoText, Ord(2024, 2, 29))
    \/ \E r \in LedgerRanges : Dashboard("alice", "custom", r[1], r[2], Ord(2024, 2, 29))
    \/ Respond

SpecLedger == Init /\ [][NextLedger]_vars

(***************************************************************************)
(* CSV import: the uploaded file.                                          *)
(*   present  FALSE when request.FILES holds no 'file'                     *)
(*   name     the file's name                                              *)
(*   size     its length in bytes: the header, the rows, and the blank     *)
(*            lines after them, which the reader passes over               *)
(*   utf8     whether its bytes decode as UTF-8                            *)
(*   header   the field names of its first line                            *)
(*   rows     its other lines, each the sequence of its values; <<>> is a  *)
(*            blank line                                                   *)
(***************************************************************************)
T_income == <<"i","n","c","o","m","e">>
T_expense == <<"e","x","p","e","n","s","e">>
T_debt == <<"d","e","b","t">>
T_saving == <<"s","a","v","i","n","g">>
T_transfer == <<"t","r","a","n","s","f","e","r">>
T_Pay == <<"P","a","y">>
T_Lunch == <<"L","u","n","c","h">>
T_10 == <<"1","0">>
T_550 == <<"5",".","5","0">>
T_abc == <<"a","b","c">>
T_hash50 == <<"#","5","0">>
T_INCOME == <<"I","N","C","O","M","E">>
T_20240101 == <<"2","0","2","4","-","0","1","-","0","1">>
T_20240102 == <<"2","0","2","4","-","0","1","-","0","2">>
T_20240103 == <<"2","0","2","4","-","0","1","-","0","3">>
T_20241301 == <<"2","0","2","4","-","1","3","-","0","1">>
T_01022024 == <<"0","1","/","0","2","/","2","0","2","4">>
T_13022024 == <<"1","3","/","0","2","/","2","0","2","4">>
T_minus5 == <<"-","5">>
T_data_csv == <<"d","a","t","a",".","c","s","v">>
T_data_txt == <<"d","a","t","a",".","t","x","t">>
T_data_CSV == <<"d","a","t","a",".","C","S","V">>
T_csv == <<"c","s","v">>
T_dot_csv == <<".","c","s","v">>

NoFile == [present |-> FALSE, name |-> <<>>, size |-> 0, utf8 |-> TRUE,
           header |-> <<>>, rows |-> <<>>]

\* `not file`: no file, or a file whose name is empty (File.__bool__)
FileAbsent(file) == ~file.present \/ file.name = <<>>

\* file.name.endswith('.csv')
IsCsvName(file) == EndsWith(file.name, T_dot_csv)

\* Variant of the size check that also refuses a file of exactly the limit.
FileTooLargeInclusive(file) == file.size >= 5 * 1024 * 1024

\* file.size > 5 * 1024 * 1024
FileTooLarge(file) == file.size > 5 * 1024 * 1024

\* The body of an error response: the pieces of its text.
Err_NoFile == <<"No file uploaded.">>
Err_NotCsv == <<"Please upload a CSV file.">>
Err_TooLarge == <<"File size should not exceed 5MB.">>
Err_Decode == <<"'utf-8' codec can't decode byte">>
Err_StopIteration == <<"">>
Err_NoneLower == <<"'NoneType' object has no attribute 'lower'">>
Err_NoneStrip == <<"'NoneType' object has no attribute 'strip'">>

ImportError(pieces) == [kind |-> "import", status |-> 400, error |-> pieces]

\* The three checks made before the file is read; <<>> when it passes them.
FileCheck(file) ==
    IF FileAbsent(file) THEN Err_NoFile
    ELSE IF ~IsCsvName(file) THEN Err_NotCsv
    ELSE IF FileTooLarge(file) THEN Err_TooLarge
    ELSE <<>>

(***************************************************************************)
(* csv.DictReader: a row maps each field name of the header to its value,  *)
(* and to None (NoText) where the line has fewer values than the header;   *)
(* blank lines are passed over.                                            *)
(***************************************************************************)
FieldIndex(header, f) == CHOOSE i \in 1..Len(header) :
                            header[i] = f /\ \A j \in (i + 1)..Len(header) : header[j] # f

RowDict(header, values) ==
    [f \in Range(header) |->
        IF FieldIndex(header, f) <= Len(values) THEN values[FieldIndex(header, f)]
        ELSE NoText]

\* row.get(key, default)
Get(row, key, default) == IF key \in DOMAIN row THEN row[key] ELSE default

\* any(row.values()); the values beyond the header form a non-empty list
AnyValue(header, values) ==
    \/ Len(values) > Len(header)
    \/ \E i \in 1..Len(values) : values[i] # <<>>

\* Variant of the rows the loop sees in which the first data row is consumed
\* by the read made for the header check.
DataRowsAfterFirst(file) ==
    IF \A k \in 1..Len(file.rows) : file.rows[k] = <<>> THEN <<>>
    ELSE Tail(SelectSeq(file.rows, LAMBDA r : r # <<>>))

\* The rows `for row in csv_reader` yields after seek(0) and the second next().
DataRows(file) == SelectSeq(file.rows, LAMBDA r : r # <<>>)

required_fields == <<"date", "type", "category", "name", "amount">>

\* [field for field in required_fields if field not in first_row]
MissingFields(header) == SelectSeq(required_fields, LAMBDA f : f \notin Range(header))

\* ', '.join(fields)
RECURSIVE JoinComma(_)
JoinComma(fields) ==
    IF fields = <<>> THEN <<>>
    ELSE IF Len(fields) = 1 THEN fields
    ELSE <<Head(fields), ", ">> \o JoinComma(Tail(fields))

\* The error of the header check; <<>> when no field is missing.
Err_Missing(fields) ==
    IF fields = <<>> THEN <<>> ELSE <<"Missing required fields: ">> \o JoinComma(fields)

\* Reading the file up to the loop over its rows: the decoding, the first
\* row (next(csv_reader) raises StopIteration when there is none), and the
\* check of the header.  <<>> when the loop is reached.
ReadCheck(file) ==
    IF ~file.utf8 THEN Err_Decode
    ELSE IF DataRows(file) = <<>> THEN Err_StopIteration
    ELSE Err_Missing(MissingFields(file.header))

\* Variant of the type of a row in which every text that is not income, debt
\* or saving stands for an expense.
TypeOfTextElse(t) ==
    CASE t = T_income  -> "income"
      [] t = T_debt    -> "debt"
      [] t = T_saving  -> "saving"
      [] OTHER         -> "expense"

\* The record type a text names, Null when it names none.
TypeOfText(t) ==
    CASE t = T_income  -> "income"
      [] t = T_expense -> "expense"
      [] t = T_debt    -> "debt"
      [] t = T_saving  -> "saving"
      [] OTHER         -> Null

\* FinancialCategory rows with this name and type (name is unique)
CategoriesNamed(name, type) == {c \in categories : c.name = name /\ c.type = type}

(***************************************************************************)
(* api.views.ImportDataView (incomes and expenses): one row of the loop.   *)
(* outcome is "skip" (continue), "abort" (an exception that leaves the     *)
(* loop, error its text), or the type of the record the row creates.       *)
(***************************************************************************)
T_NoneStr == <<"N","o","n","e">>     \* str(None)

date_formats == <<"%Y-%m-%d", "%m/%d/%Y", "%d/%m/%Y">>

\* The first of date_formats that parses the text; NoDate when none does.
FirstParsed(days) ==
    IF \E k \in 1..Len(days) : days[k] # NoDate
    THEN days[CHOOSE k \in 1..Len(days) :
                 days[k] # NoDate /\ \A j \in 1..(k - 1) : days[j] = NoDate]
    ELSE NoDate

FirstDate(text) ==
    FirstParsed([k \in 1..Len(date_formats) |-> Strptime(text, date_formats[k])])

Skip2 == [outcome |-> "skip", error |-> <<>>, data |-> <<>>]
Abort2(pieces) == [outcome |-> "abort", error |-> pieces, data |-> <<>>]

Row2(u, header, values) ==
    LET row == RowDict(header, values)
        ty  == Get(row, "type", <<>>)
        rt  == TypeOfText(Strip(Lower(ty)))
        cat == Get(row, "category", <<>>)
        am  == Get(row, "amount", <<"0">>)
        f   == FloatOfText(Strip(RemoveChar(IF am = NoText THEN T_NoneStr ELSE am, "#")))
        ds  == Get(row, "date", <<>>)
        nm  == Get(row, "name", <<>>)
        de  == Get(row, "description", <<>>)
    IN  IF ~AnyValue(header, values) THEN Skip2
        ELSE IF ty = NoText THEN Abort2(Err_NoneLower)
        ELSE IF rt \notin {"income", "expense"} THEN Skip2
        ELSE IF cat = NoText THEN Abort2(Err_NoneStrip)
        ELSE IF CategoriesNamed(Strip(cat), rt) = {} THEN Skip2
        ELSE IF ~f.ok THEN Skip2
        ELSE IF ds = NoText THEN Abort2(Err_NoneStrip)
        ELSE IF FirstDate(Strip(ds)) = NoDate THEN Skip2
        ELSE IF nm = NoText \/ de = NoText THEN Abort2(Err_NoneStrip)
        ELSE [outcome |-> rt, error |-> <<>>,
              data |-> [user        |-> u,
                        category    |-> (CHOOSE c \in CategoriesNamed(Strip(cat), rt) : TRUE).id,
                        name        |-> Strip(nm),
                        description |-> Strip(de),
                        amount      |-> f.val,
                        date        |-> FirstDate(Strip(ds))]]

\* Model.objects.create(**data): the row gets the next id of its table
WithId(table, data) ==
    [f \in DOMAIN data \cup {"id"} |-> IF f = "id" THEN Len(table) + 1 ELSE data[f]]

\* The loop over the rows inside transaction.atomic(); acc holds the tables
\* as written so far and the counters.  Step2 is the loop's body once the
\* row r has been worked out.
RECURSIVE Loop2(_, _, _, _)
RECURSIVE Step2(_, _, _, _, _)
Loop2(u, header, rows, acc) ==
    IF rows = <<>> THEN acc
    ELSE Step2(u, header, rows, acc, Row2(u, header, Head(rows)))

Step2(u, header, rows, acc, r) ==
    IF r.outcome = "abort" THEN [acc EXCEPT !.error = r.error]
    ELSE Loop2(u, header, Tail(rows),
            CASE r.outcome = "income" ->
                    [acc EXCEPT !.incomes = Append(@, WithId(@, r.data)),
                                !.count.income = @ + 1]
              [] r.outcome = "expense" ->
                    [acc EXCEPT !.expenses = Append(@, WithId(@, r.data)),
                                !.count.expense = @ + 1]
              [] OTHER -> acc)

Txt_Imported == "Data imported successfully."

\* The first of two errors; <<>> stands for no error.
FirstError(a, b) == IF a # <<>> THEN a ELSE b

\* The response and the tables post() leaves, given the error met before the
\* loop and what the loop did.  An exception inside the atomic block rolls
\* back what the loop wrote and is answered 400.
Answer2(error, done) ==
    IF FirstError(error, done.error) # <<>>
    THEN [resp |-> ImportError(FirstError(error, done.error)),
          incomes |-> incomes, expenses |-> expenses]
    ELSE [resp |-> [kind |-> "import", status |-> 201, message |-> Txt_Imported,
                    imported_count |-> done.count],
          incomes |-> done.incomes, expenses |-> done.expenses]

Start2 == [error |-> <<>>, incomes |-> incomes, expenses |-> expenses,
           count |-> [income |-> 0, expense |-> 0]]

\* post()
Import2(u, file) ==
    Answer2(FirstError(FileCheck(file), ReadCheck(file)),
            Loop2(u, file.header, DataRows(file), Start2))

\* POST import-data/ as served by api.views.ImportDataView
ImportData2(u, file) ==
    /\ Idle
    /\ NumRecords < MaxRecords
    /\ req' = [kind |-> "import", view |-> "api", user |-> u, file |-> file]
    /\ \E out \in {Import2(u, file)} :
          /\ resp' = out.resp
          /\ incomes' = out.incomes
          /\ expenses' = out.expenses
    /\ UNCHANGED <<categories, debts, savings>>

(***************************************************************************)
(* financial_category.views.ImportDataView (four types): one row of the    *)
(* loop.  Every exception of a row is caught and the row skipped; outcome  *)
(* is "skip", "poison" (the INSERT failed in the database, which marks the *)
(* transaction for rollback), or the type of the record the row creates.   *)
(***************************************************************************)
Skip4 == [outcome |-> "skip", data |-> <<>>]

\* The fields of the four models that create(**data) may be given.
ModelFields(type) ==
    CASE type \in {"income", "expense"} ->
            {"user", "category", "name", "description", "amount", "date"}
      [] type = "debt" ->
            {"user", "category", "name", "description", "amount", "paid_amount", "due_date"}
      [] type = "saving" ->
            {"user", "category", "name", "description", "target_amount",
             "current_amount", "target_date"}

\* Model.objects.create(**data): a keyword that is no field of the model raises
\* TypeError before anything is written; a name of None fails in the database
\* (NOT NULL), which marks the transaction for rollback.
Create4(type, data) ==
    IF ~(DOMAIN data \subseteq ModelFields(type)) THEN Skip4
    ELSE IF data.name = NoText THEN [outcome |-> "poison", data |-> <<>>]
    ELSE [outcome |-> type, data |-> data]

Row4(u, header, values) ==
    LET row  == RowDict(header, values)
        ty   == row["type"]
        rt   == TypeOfText(Lower(ty))
        day  == Strptime(row["date"], "%Y-%m-%d")
        amt  == FloatOfText(row["amount"])
        cat  == Get(row, "category", NoText)
        cid  == IF Falsy(cat) \/ CategoriesNamed(cat, rt) = {} THEN NoId
                ELSE (CHOOSE c \in CategoriesNamed(cat, rt) : TRUE).id
        data == [user        |-> u,
                 category    |-> cid,
                 name        |-> Get(row, "name", <<>>),
                 description |-> Get(row, "description", <<>>),
                 amount      |-> amt.val,
                 date        |-> day]
        pa   == Get(row, "paid_amount", <<"0">>)
        dd   == Get(row, "due_date", row["date"])
        ca   == Get(row, "current_amount", <<"0">>)
        td   == Get(row, "target_date", row["date"])
        with(d, k, v) == [x \in DOMAIN d \cup {k} |-> IF x = k THEN v ELSE d[x]]
    IN  IF ~AnyValue(header, values) THEN Skip4
        ELSE IF ty = NoText \/ rt = Null THEN Skip4
        ELSE IF row["date"] = NoText \/ day = NoDate THEN Skip4
        ELSE IF row["amount"] = NoText \/ ~amt.ok THEN Skip4
        ELSE IF amt.val < 0 THEN Skip4
        ELSE IF rt \in {"income", "expense"} THEN Create4(rt, data)
        ELSE IF rt = "debt"
        THEN IF pa = NoText \/ ~FloatOfText(pa).ok THEN Skip4
             ELSE IF dd = NoText \/ Strptime(dd, "%Y-%m-%d") = NoDate THEN Skip4
             ELSE Create4(rt, with(with(data, "paid_amount", FloatOfText(pa).val),
                                   "due_date", Strptime(dd, "%Y-%m-%d")))
        ELSE IF ca = NoText \/ ~FloatOfText(ca).ok THEN Skip4
             ELSE IF td = NoText \/ Strptime(td, "%Y-%m-%d") = NoDate THEN Skip4
             ELSE Create4(rt, with(with(with(data, "target_amount", amt.val),
                                        "current_amount", FloatOfText(ca).val),
                                   "target_date", Strptime(td, "%Y-%m-%d")))

\* The loop over the rows inside transaction.atomic().  Once the transaction
\* is marked for rollback every query raises, so every later row is skipped.
\* Step4 is the loop's body once the row r has been worked out.
RECURSIVE Loop4(_, _, _, _)
RECURSIVE Step4(_, _, _, _, _)
Loop4(u, header, rows, acc) ==
    IF rows = <<>> THEN acc
    ELSE Step4(u, header, rows, acc, Row4(u, header, Head(rows)))

Step4(u, header, rows, acc, r) ==
    Loop4(u, header, Tail(rows),
        CASE acc.poisoned -> acc
          [] r.outcome = "poison" -> [acc EXCEPT !.poisoned = TRUE]
          [] r.outcome = "income" ->
                [acc EXCEPT !.incomes = Append(@, WithId(@, r.data)),
                            !.count.income = @ + 1]
          [] r.outcome = "expense" ->
                [acc EXCEPT !.expenses = Append(@, WithId(@, r.data)),
                            !.count.expense = @ + 1]
          [] r.outcome = "debt" ->
                [acc EXCEPT !.debts = Append(@, WithId(@, r.data)),
                            !.count.debt = @ + 1]
          [] r.outcome = "saving" ->
                [acc EXCEPT !.savings = Append(@, WithId(@, r.data)),
                            !.count.saving = @ + 1]
          [] OTHER -> acc)

Tables == [incomes |-> incomes, expenses |-> expenses,
           debts |-> debts, savings |-> savings]

\* The response and the tables post() leaves, given the error met before the
\* loop and what the loop did.  Leaving the atomic block with the transaction
\* marked for rollback undoes what the loop wrote; the response still reports
\* the counters.
Answer4(error, done) ==
    IF error # <<>> THEN [resp |-> ImportError(error), tables |-> Tables]
    ELSE [resp |-> [kind |-> "import", status |-> 201, message |-> Txt_Imported,
                    imported_count |-> done.count],
          tables |-> IF done.poisoned THEN Tables
                     ELSE [incomes |-> done.incomes, expenses |-> done.expenses,
                           debts |-> done.debts, savings |-> done.savings]]

Start4 == [incomes |-> incomes, expenses |-> expenses,
           debts |-> debts, savings |-> savings, poisoned |-> FALSE,
           count |-> [income |-> 0, expense |-> 0, debt |-> 0, saving |-> 0]]

\* post()
Import4(u, file) ==
    Answer4(FirstError(FileCheck(file), ReadCheck(file)),
            Loop4(u, file.header, DataRows(file), Start4))

\* POST import-data/ as served by financial_category.views.ImportDataView
ImportData4(u, file) ==
    /\ Idle
    /\ NumRecords < MaxRecords
    /\ req' = [kind |-> "import", view |-> "financial_category", user |-> u, file |-> file]
    /\ \E out \in {Import4(u, file)} :
          /\ resp' = out.resp
          /\ incomes' = out.tables.incomes
          /\ expenses' = out.tables.expenses
          /\ debts' = out.tables.debts
          /\ savings' = out.tables.savings
    /\ UNCHANGED categories

(***************************************************************************)
(* SpecImport: files are posted to the two import views.                   *)
(***************************************************************************)
H_Std == <<"date", "type", "category", "name", "amount">>
H_NoAmount == <<"date", "type", "category", "name">>
H_DateName == <<"date", "name">>
H_NameLast == <<"date", "type", "category", "amount", "name">>

R_Income == <<T_20240101, T_income, T_Salary, T_Pay, T_10>>
R_Expense == <<T_20240103, T_expense, T_Food, T_Lunch, T_550>>
R_Debt == <<T_20240102, T_debt, T_Loan, T_Car, T_10>>
R_DateOnly == <<T_20240102>>
R_NoCategory == <<T_20240102, T_income>>
R_NoAmount == <<T_20240102, T_income, T_Salary, T_Pay>>
R_BadType == <<T_20240102, T_transfer, T_Salary, T_Pay, T_10>>
R_BadAmount == <<T_20240102, T_income, T_Salary, T_Pay, T_abc>>
R_BadDate == <<T_20241301, T_income, T_Salary, T_Pay, T_10>>
R_Empty == <<<<>>, <<>>, <<>>, <<>>, <<>>>>
R_Blank == <<>>
R_IncomeNameLast == <<T_20240101, T_income, T_Salary, T_10, T_Pay>>
R_NoNameLast == <<T_20240102, T_income, T_Salary, T_10>>
R_Hash == <<T_20240102, T_income, T_Salary, T_Pay, T_hash50>>
R_UpperType == <<T_20240103, T_INCOME, T_Salary, T_Pay, T_10>>
R_UnknownCategory == <<T_20240102, T_expense, T_Pay, T_Lunch, T_10>>
R_OtherType == <<T_20240103, T_expense, T_Salary, T_Lunch, T_10>>
R_Slash0102 == <<T_01022024, T_income, T_Salary, T_Pay, T_10>>
R_Slash1302 == <<T_13022024, T_income, T_Salary, T_Pay, T_10>>
R_Negative == <<T_20240102, T_income, T_Salary, T_Pay, T_minus5>>

\* Rows that create no record, each put between two rows that do.
MiddleRows == {R_Debt, R_DateOnly, R_NoCategory, R_NoAmount, R_BadType, R_BadAmount,
               R_BadDate, R_Empty, R_Blank}

\* <<header, rows>>
ImportContents ==
    {<<H_Std, <<R_Income, r, R_Expense>>>> : r \in MiddleRows}
    \cup {<<H_Std, <<R_Income>>>>,
          <<H_Std, <<R_Hash>>>>,
          <<H_Std, <<R_BadType, R_UpperType>>>>,
          <<H_Std, <<R_BadType>>>>,
          <<H_Std, <<R_UnknownCategory, R_OtherType>>>>,
          <<H_Std, <<R_Slash0102, R_Slash1302>>>>,
          <<H_Std, <<R_Negative>>>>,
          <<H_Std, <<>>>>,
          <<H_NoAmount, <<>>>>,
          <<H_NoAmount, <<R_NoAmount>>>>,
          <<H_DateName, <<<<T_20240101, T_Pay>>>>>>,
          <<H_NameLast, <<R_IncomeNameLast, R_NoNameLast, R_IncomeNameLast>>>>}

UploadLimit == 5242880

File(name, size, utf8, content) ==
    [present |-> TRUE, name |-> name, size |-> size, utf8 |-> utf8,
     header |-> content[1], rows |-> content[2]]

\* Small files of every content, and one content under other names and sizes,
\* undecodable, and not uploaded at all.
ImportFiles ==
    {File(T_data_csv, 120, TRUE, c) : c \in ImportContents}
    \cup {File(n, 120, TRUE, <<H_Std, <<R_Income>>>>) : n \in {T_data_txt, T_data_CSV, T_csv}}
    \cup {File(T_data_csv, s, TRUE, <<H_Std, <<R_Income>>>>) :
            s \in {UploadLimit, UploadLimit + 1}}
    \cup {File(T_data_txt, UploadLimit + 1, FALSE, <<H_Std, <<R_Income>>>>),
          File(T_data_csv, 120, FALSE, <<H_Std, <<R_Income>>>>),
          NoFile}

NextImport ==
    \/ \E u \in Users, file \in ImportFiles : ImportData2(u, file)
    \/ \E u \in Users, file \in ImportFiles : ImportData4(u, file)
    \/ Respond

SpecImport == Init /\ [][NextImport]_vars

(***************************************************************************)
(* SpecShared: two users create records of every kind and import files     *)
(* while one of them asks for the dashboard.                               *)
(***************************************************************************)
R_IncomeMarch == <<T_20240302, T_income, T_Salary, T_Pay, T_10>>
R_ExpenseMarch == <<T_20240302, T_expense, T_Food, T_Lunch, T_550>>

SharedFiles == {File(T_data_csv, 120, TRUE, <<H_Std, <<R_IncomeMarch, R_ExpenseMarch>>>>)}

\* The periods asked for, on Friday 2024-03-01.
SharedPeriods == {"week", "month"}
SharedClock == Ord(2024, 3, 1)

NextShared ==
    \/ \E u \in Users : CreateIncome(u, 4, T_CarLower, 500, Ord(2024, 3, 1))
    \/ \E u \in Users : CreateExpense(u, 1, T_CarLower, 500, Ord(2024, 3, 1))
    \/ \E u \in Users : CreateDebt(u, NoId, T_Car, 1000, 500, Ord(2024, 3, 1))
    \/ \E u \in Users : CreateSaving(u, NoId, T_Car, 1000, 500, Ord(2024, 3, 1))
    \/ \E u \in Users, file \in SharedFiles : ImportData2(u, file)
    \/ \E u \in Users, file \in SharedFiles : ImportData4(u, file)
    \/ \E p \in SharedPeriods : Dashboard("alice", p, NoText, NoText, SharedClock)
    \/ Respond

SpecShared == Init /\ [][NextShared]_vars

(***************************************************************************)
(* FinancialCategoryViewSet: the categories endpoint.  A request whose     *)
(* action writes is answered by http_method_not_allowed when the user is   *)
(* no admin: get_permissions, which runs before the handler is looked up,  *)
(* has then cut http_method_names down to get, head and options.           *)
(***************************************************************************)
MaxCategoryId == 7       \* ids the catalog's sequence may hand out

Admins == {"carol"}

\* Variant of the admin flag that every user has.
IsAdminAny(u) == TRUE

\* CustomUser.is_admin
IsAdmin(u) == u \in Admins

CategoryDenied == [kind |-> "category", status |-> 405]
CategoryInvalid == [kind |-> "category", status |-> 400]
CategoryNotFound == [kind |-> "category", status |-> 404]

CategoryIdsInUse == {c.id : c \in categories}

\* get_object(): the category of that id, if there is one
CategoryAt(id) == CHOOSE c \in categories : c.id = id

\* FinancialCategorySerializer.is_valid: type is one of CATEGORY_TYPES, name is
\* not blank and no other category has it (unique=True); data holds the
\* fields that are written, merged over the instance for an update.
CategoryValid(data, id) ==
    /\ data.type \in CATEGORY_TYPES
    /\ data.name # <<>>
    /\ \A c \in categories : c.name = data.name => c.id = id

\* The next value of the table's sequence: greater than every id in the table,
\* and further ahead when rows created after them have been deleted.
NextCategoryIds ==
    {n \in 1..MaxCategoryId : \A i \in CategoryIdsInUse : n > i}

\* on_delete=models.SET_NULL on the category of every kind of record
SetNull(table, id) ==
    [k \in 1..Len(table) |->
        IF table[k].category = id THEN [table[k] EXCEPT !.category = NoId] ELSE table[k]]

\* POST /categories/
CreateCategory(u, data) ==
    /\ Idle
    /\ req' = [kind |-> "category", action |-> "create", user |-> u, id |-> NoId,
               data |-> data]
    /\ IF ~IsAdmin(u) THEN resp' = CategoryDenied /\ UNCHANGED store
       ELSE IF ~CategoryValid(data, NoId) THEN resp' = CategoryInvalid /\ UNCHANGED store
       ELSE /\ \E n \in NextCategoryIds :
                  categories' = categories \cup {[id |-> n, name |-> data.name,
                                                  type |-> data.type]}
            /\ resp' = [kind |-> "category", status |-> 201]
            /\ UNCHANGED <<incomes, expenses, debts, savings>>

\* PUT /categories/<id>/ (partial FALSE) and PATCH /categories/<id>/ (partial
\* TRUE, which ModelViewSet hands to update): data holds the fields given.
UpdateCategory(u, id, data, partial) ==
    /\ Idle
    /\ req' = [kind |-> "category",
               action |-> IF partial THEN "partial_update" ELSE "update",
               user |-> u, id |-> id, data |-> data]
    /\ IF ~IsAdmin(u) THEN resp' = CategoryDenied /\ UNCHANGED store
       ELSE IF id \notin CategoryIdsInUse THEN resp' = CategoryNotFound /\ UNCHANGED store
       ELSE IF ~partial /\ DOMAIN data # {"name", "type"}
       THEN resp' = CategoryInvalid /\ UNCHANGED store
       ELSE IF ~CategoryValid(SetAttrs(CategoryAt(id), data), id)
       THEN resp' = CategoryInvalid /\ UNCHANGED store
       ELSE /\ categories' = (categories \ {CategoryAt(id)})
                                \cup {SetAttrs(CategoryAt(id), data)}
            /\ resp' = [kind |-> "category", status |-> 200]
            /\ UNCHANGED <<incomes, expenses, debts, savings>>

\* DELETE /categories/<id>/
DestroyCategory(u, id) ==
    /\ Idle
    /\ req' = [kind |-> "category", action |-> "destroy", user |-> u, id |-> id,
               data |-> <<>>]
    /\ IF ~IsAdmin(u) THEN resp' = CategoryDenied /\ UNCHANGED store
       ELSE IF id \notin CategoryIdsInUse THEN resp' = CategoryNotFound /\ UNCHANGED store
       ELSE /\ categories' = categories \ {CategoryAt(id)}
            /\ incomes' = SetNull(incomes, id)
            /\ expenses' = SetNull(expenses, id)
            /\ debts' = SetNull(debts, id)
            /\ savings' = SetNull(savings, id)
            /\ resp' = [kind |-> "category", status |-> 204]

(***************************************************************************)
(* SpecCatalog: a user and an admin write to the categories endpoint       *)
(* while the user records an expense in a category.                        *)
(***************************************************************************)
T_Gym == <<"G","y","m">>

CatalogUsers == {"alice"} \cup Admins

\* A new category, a name in use, a type that is none, and a blank name.
CategoryData ==
    {[name |-> T_Gym, type |-> "expense"], [name |-> T_Food, type |-> "income"],
     [name |-> T_Gym, type |-> "bonus"], [name |-> <<>>, type |-> "expense"]}

CategoryPatches == {[name |-> T_Gym], [type |-> "debt"], [name |-> T_Rent]}

\* The categories written to: two of the catalog and one created later.
CatalogTargets == {1, 2, 6}

NextCatalog ==
    \/ \E u \in CatalogUsers, data \in CategoryData : CreateCategory(u, data)
    \/ \E u \in CatalogUsers, id \in CatalogTargets, data \in CategoryData :
          UpdateCategory(u, id, data, FALSE)
    \/ \E u \in CatalogUsers, id \in CatalogTargets, data \in CategoryPatches :
          UpdateCategory(u, id, data, TRUE)
    \/ \E u \in CatalogUsers, id \in CatalogTargets : DestroyCategory(u, id)
    \/ CreateExpense("alice", 1, T_Lunch, 500, Ord(2024, 3, 1))
    \/ Respond

SpecCatalog == Init /\ [][NextCatalog]_vars

(***************************************************************************)
(* SpecRanking: a file of expenses is imported, more than the top five     *)
(* hold and several of one amount, and the dashboard is asked for the      *)
(* month and the year.                                                     *)
(***************************************************************************)
T_20 == <<"2","0">>
T_30 == <<"3","0">>

R_Food30 == <<T_20240101, T_expense, T_Food, T_Lunch, T_30>>
R_Food20 == <<T_20240102, T_expense, T_Food, T_Lunch, T_20>>
R_Rent20 == <<T_20240102, T_expense, T_Rent, T_Pay, T_20>>
R_Food10 == <<T_20240103, T_expense, T_Food, T_Lunch, T_10>>
R_Rent10 == <<T_20240103, T_expense, T_Rent, T_Pay, T_10>>
R_Other10 == <<T_20240103, T_expense, T_Gym, <<>>, T_10>>
R_Food550 == <<T_20240101, T_expense, T_Food, T_Lunch, T_550>>
R_FoodMarch == <<T_20240302, T_expense, T_Food, T_Lunch, T_30>>

\* Seven expenses of January 2024 with three of 10.00 around the fifth place
\* and one of March; six expenses of January with one amount below the other
\* five; six expenses of January, the largest without category.
RankingFiles ==
    {File(T_data_csv, 400, TRUE,
          <<H_Std, <<R_Food30, R_Food20, R_Rent20, R_Food10, R_Rent10, R_Other10,
                     R_Food550, R_FoodMarch>>>>),
     File(T_data_csv, 300, TRUE,
          <<H_Std, <<R_Food30, R_Food20, R_Rent20, R_Food10, R_Rent10, R_Food550>>>>),
     File(T_data_csv, 300, TRUE,
          <<H_Std, <<R_Other10, R_Food550, R_Food550, R_Rent10, R_Food550, R_Rent10>>>>)}

RankingExpenses ==
    {NoId, 1, 2} \X {T_CarLower} \X {4000} \X {Ord(2024, 1, 2), Ord(2024, 3, 2)}

RankingPeriods == {"month", "year"}
RankingClock == Ord(2024, 1, 15)

NextRanking ==
    \/ \E x \in RankingExpenses : CreateExpense("alice", x[1], x[2], x[3], x[4])
    \/ \E file \in RankingFiles : ImportData4("alice", file)
    \/ \E p \in RankingPeriods : Dashboard("alice", p, NoText, NoText, RankingClock)
    \/ Respond

SpecRanking == Init /\ [][NextRanking]_vars

(***************************************************************************)
(* SpecPayments: expenses are recorded in an expense category, by request  *)
(* and by import, an admin then makes that category one of type debt, and  *)
(* the dashboard is asked for the month.                                   *)
(***************************************************************************)
R_CarFood == <<T_20240102, T_expense, T_Food, T_CarLower, T_10>>
R_CarRent == <<T_20240103, T_expense, T_Rent, T_CarLower, T_20>>
R_CarMarch == <<T_20240302, T_expense, T_Food, T_CarLower, T_30>>

PaymentFiles ==
    {File(T_data_csv, 200, TRUE, <<H_Std, <<R_CarFood, R_Food550, R_CarRent, R_CarMarch>>>>)}

\* <<user, name, amount, paid_amount>>
PaymentDebts ==
    ({"alice"} \X {T_Car, T_CarLower} \X {<<2000, 500>>, <<0, 0>>})
    \cup {<<"bob", T_Car, <<1000, 0>>>>}

PaymentExpenses ==
    ({"alice"} \X {1, 2} \X {T_CarLower} \X {500} \X {Ord(2024, 1, 2), Ord(2024, 3, 2)})
    \cup {<<"bob", 1, T_CarLower, 500, Ord(2024, 1, 2)>>}

PaymentsClock == Ord(2024, 1, 15)

NextPayments ==
    \/ \E x \in PaymentDebts :
          CreateDebt(x[1], NoId, x[2], x[3][1], x[3][2], Ord(2024, 3, 1))
    \/ \E x \in PaymentExpenses : CreateExpense(x[1], x[2], x[3], x[4], x[5])
    \/ \E file \in PaymentFiles : ImportData4("alice", file)
    \/ \E u \in CatalogUsers : UpdateCategory(u, 1, [type |-> "debt"], TRUE)
    \/ Dashboard("alice", "month", NoText, NoText, PaymentsClock)
    \/ Respond

SpecPayments == Init /\ [][NextPayments]_vars

(***************************************************************************)
(* SpecTotals: two users record debts and savings goals, some fully paid,  *)
(* some with an amount of 0, and one asks for the dashboard.               *)
(***************************************************************************)
\* <<amount, paid_amount>> and <<target_amount, current_amount>>
TotalsDebts == {<<1000, 1000>>, <<2000, 500>>, <<0, 0>>}
TotalsSavings == {<<1000, 500>>, <<2000, 0>>, <<0, 500>>}

NextTotals ==
    \/ \E u \in Users, x \in TotalsDebts :
          CreateDebt(u, NoId, T_Car, x[1], x[2], Ord(2024, 3, 1))
    \/ \E u \in Users, x \in TotalsSavings :
          CreateSaving(u, NoId, T_Car, x[1], x[2], Ord(2024, 3, 1))
    \/ Dashboard("alice", "month", NoText, NoText, PaymentsClock)
    \/ Respond

SpecTotals == Init /\ [][NextTotals]_vars

(***************************************************************************)
(* ExpenseViewSet: the expenses endpoint beyond create.  get_queryset      *)
(* joins the category and keeps the user's expenses whose category is of   *)
(* type expense; list shows them, and retrieve, update, partial_update and *)
(* destroy answer 404 for an id that is not among them.                    *)
(***************************************************************************)
\* filter(user=self.request.user, category__type='expense')
ExpenseVisible(u, e) == e.user = u /\ CategoryType(e) = "expense"

\* get_object(): the places of the rows of the queryset with that pk
ExpensePlaces(u, id) ==
    {i \in 1..Len(expenses) : expenses[i].id = id /\ ExpenseVisible(u, expenses[i])}

ExpenseNotFound == [kind |-> "expense", status |-> 404]
ExpenseInvalid == [kind |-> "expense", status |-> 400]

\* ExpenseSerializer.is_valid: category_id is null or names a category of type
\* expense, name is not blank; a full update needs name, amount and date.
ExpenseValid(data, partial) ==
    /\ "category" \in DOMAIN data => data.category \in ExpenseCategoryChoices
    /\ "name" \in DOMAIN data => data.name # <<>>
    /\ partial \/ {"name", "amount", "date"} \subseteq DOMAIN data

\* A deleted row: its place in the table is kept, owned by nobody, so that
\* no query finds it and its id is not given to a later row (AutoField).
Deleted(row) ==
    [row EXCEPT !.user = Null, !.category = NoId, !.name = <<>>, !.amount = 0,
                !.date = NoDate]

\* GET /expenses/
ListExpenses(u) ==
    /\ Idle
    /\ req' = [kind |-> "expense", action |-> "list", user |-> u, id |-> NoId,
               data |-> <<>>]
    /\ resp' = [kind |-> "expense", status |-> 200,
                ids |-> {expenses[i].id : i \in {j \in 1..Len(expenses) :
                                                   ExpenseVisible(u, expenses[j])}}]
    /\ UNCHANGED store

\* GET /expenses/<id>/
RetrieveExpense(u, id) ==
    /\ Idle
    /\ req' = [kind |-> "expense", action |-> "retrieve", user |-> u, id |-> id,
               data |-> <<>>]
    /\ resp' = IF ExpensePlaces(u, id) = {} THEN ExpenseNotFound
               ELSE [kind |-> "expense", status |-> 200, ids |-> {id}]
    /\ UNCHANGED store

\* PUT /expenses/<id>/ (partial FALSE) and PATCH /expenses/<id>/ (partial TRUE)
UpdateExpense(u, id, data, partial) ==
    /\ Idle
    /\ req' = [kind |-> "expense",
               action |-> IF partial THEN "partial_update" ELSE "update",
               user |-> u, id |-> id, data |-> data]
    /\ IF ExpensePlaces(u, id) = {} THEN resp' = ExpenseNotFound /\ UNCHANGED store
       ELSE IF ~ExpenseValid(data, partial) THEN resp' = ExpenseInvalid /\ UNCHANGED store
       ELSE /\ \E i \in ExpensePlaces(u, id) :
                  expenses' = [expenses EXCEPT ![i] = SetAttrs(expenses[i], data)]
            /\ resp' = [kind |-> "expense", status |-> 200, ids |-> {id}]
            /\ UNCHANGED <<categories, incomes, debts, savings>>

\* DELETE /expenses/<id>/
DestroyExpense(u, id) ==
    /\ Idle
    /\ req' = [kind |-> "expense", action |-> "destroy", user |-> u, id |-> id,
               data |-> <<>>]
    /\ IF ExpensePlaces(u, id) = {} THEN resp' = ExpenseNotFound /\ UNCHANGED store
       ELSE /\ \E i \in ExpensePlaces(u, id) :
                  expenses' = [expenses EXCEPT ![i] = Deleted(expenses[i])]
            /\ resp' = [kind |-> "expense", status |-> 204]
            /\ UNCHANGED <<categories, incomes, debts, savings>>

(***************************************************************************)
(* SpecExpenses: two users create expenses, with a category and without,   *)
(* and list, read, change and delete expenses by id.                       *)
(***************************************************************************)
ExpenseData ==
    {[amount |-> 700], [category |-> 1], [category |-> NoId], [category |-> 3],
     [name |-> T_Pay, amount |-> 700, date |-> Ord(2024, 3, 2)]}

NextExpenses ==
    \/ \E u \in Users, c \in {NoId, 1} : CreateExpense(u, c, T_Lunch, 500, Ord(2024, 3, 1))
    \/ \E u \in Users : ListExpenses(u)
    \/ \E u \in Users, id \in 1..MaxRecords : RetrieveExpense(u, id)
    \/ \E u \in Users, id \in 1..MaxRecords, data \in ExpenseData :
          UpdateExpense(u, id, data, FALSE)
    \/ \E u \in Users, id \in 1..MaxRecords, data \in ExpenseData :
          UpdateExpense(u, id, data, TRUE)
    \/ \E u \in Users, id \in 1..MaxRecords : DestroyExpense(u, id)
    \/ Respond

SpecExpenses == Init /\ [][NextExpenses]_vars

(***************************************************************************)
(* Properties of the dashboard.  A state with resp.kind = "dashboard" is   *)
(* the state right after the handler ran: req is the request it served     *)
(* and the store is the store it read.                                     *)
(***************************************************************************)
DashboardServed == req.kind = "dashboard" /\ resp.kind = "dashboard"
DashboardOk == DashboardServed /\ resp.status = 200

\* The window of the request in service (defined when the request is accepted).
ServedWindow ==
    ResolveWindow(EffectivePeriod(req.period), req.start_date, req.end_date, req.now)

\* The day a daily bucket is labelled with.
BucketDay(b) ==
    Ord(b.date[3], CHOOSE m \in 1..12 : MonthNames[m] = b.date[2], b.date[1])

NonZeroBuckets(data) == {k \in 1..Len(data) : data[k].amount # 0}

\* C1: in every accepted dashboard response, total_income is the sum of the
\* amount fields of the buckets of income_data.
C1_TotalIsBucketSum ==
    DashboardOk =>
        resp.total_income =
            SumAt(BucketAmounts(resp.income_data), NonZeroBuckets(resp.income_data))

\* C1 witness: monthly buckets of which two hold income, and a total that is
\* neither bucket's amount.
C1_Witness ==
    /\ DashboardOk
    /\ req.period = "year"
    /\ Cardinality(NonZeroBuckets(resp.income_data)) = 2
    /\ resp.total_income = 1500

\* A text strptime('%Y-%m-%d') accepts: a year of four digits, a month and a
\* day of one or two digits (the day also as a blank and a digit), naming a
\* day of the calendar.
AcceptedDateText(t) ==
    /\ t # NoText
    /\ LET p == Split(t, "-")
       IN  /\ Len(p) = 3
           /\ Len(p[1]) = 4 /\ AllDigits(p[1])
           /\ Len(p[2]) \in {1, 2} /\ AllDigits(p[2])
           /\ \/ Len(p[3]) \in {1, 2} /\ AllDigits(p[3])
              \/ Len(p[3]) = 2 /\ p[3][1] = " " /\ IsDigit(p[3][2])
           /\ LET y == NatVal(p[1])
                  m == NatVal(p[2])
                  d == IF p[3][1] = " " THEN DigitVal(p[3][2]) ELSE NatVal(p[3])
              IN  y >= 1 /\ m \in 1..12 /\ d >= 1 /\ d <= DaysInMonth(y, m)

\* A text of the form YYYY-MM-DD, ten characters, naming a day of the calendar.
PaddedDateText(t) == AcceptedDateText(t) /\ Len(t) = 10 /\ AllDigits(SubSeq(t, 9, 10))

KnownPeriods == {"week", "month", "year", "custom"}

\* C2: a dashboard request is answered 400, with nothing but an error, exactly
\* when its period is given and is not week, month, year or custom, or when the
\* period is custom and start_date or end_date is missing, empty or not
\* accepted by strptime('%Y-%m-%d'), which also takes months and days of one
\* digit; every other request is not answered 400.
C2_RejectedExactly ==
    DashboardServed =>
        /\ resp.status = 400 <=>
              \/ req.period # Null /\ req.period \notin KnownPeriods
              \/ /\ req.period = "custom"
                 /\ ~(AcceptedDateText(req.start_date) /\ AcceptedDateText(req.end_date))
        /\ resp.status = 400 => DOMAIN resp = {"kind", "status", "error"}

\* C2 witness: a custom range whose start has a month of one digit is accepted.
C2_Witness ==
    /\ DashboardServed
    /\ req.period = "custom"
    /\ req.start_date = T_2024228
    /\ resp.status = 200
    /\ Len(resp.income_data) = 4

\* C2 as stated: the dates must have the form YYYY-MM-DD.
C2_AsStated ==
    DashboardServed =>
        (resp.status = 400 <=>
            \/ req.period # Null /\ req.period \notin KnownPeriods
            \/ /\ req.period = "custom"
               /\ ~(PaddedDateText(req.start_date) /\ PaddedDateText(req.end_date)))

\* 2024-02-26 was a Monday.
IsMonday(n) == (n - Ord(2024, 2, 26)) % 7 = 0

\* C3: for period=week the request is accepted and income_data holds seven
\* daily buckets of consecutive days, the first a Monday, the last the Sunday
\* after it, with today among them.
C3_WeekIsMondayToSunday ==
    (DashboardServed /\ req.period = "week") =>
        /\ resp.status = 200
        /\ Len(resp.income_data) = 7
        /\ LET first == BucketDay(resp.income_data[1])
           IN  /\ IsMonday(first)
               /\ \A k \in 1..7 : BucketDay(resp.income_data[k]) = first + k - 1
               /\ first <= req.now /\ req.now <= first + 6

\* C3 witness: a week asked for on a Sunday, its second bucket holding income.
C3_Witness ==
    /\ DashboardOk
    /\ req.period = "week"
    /\ req.now = Ord(2024, 3, 3)
    /\ resp.income_data[2].amount > 0
    /\ resp.income_data[1].date = <<26, "February", 2024>>

\* The user's expenses dated in the served window.
ServedExpenses ==
    {i \in 1..Len(expenses) :
        /\ expenses[i].user = req.user
        /\ expenses[i].date >= ServedWindow.start
        /\ expenses[i].date <= ServedWindow.end}

\* C4: expense_categories holds one entry for each category name of the user's
\* expenses in the window, its amount the sum of those expenses, in
\* non-increasing order of amount; expenses without a category are in no entry
\* and are counted in total_expenses.
C4_CategoryBreakdown ==
    DashboardOk =>
        LET ec    == resp.expense_categories
            named == {i \in ServedExpenses : expenses[i].category # NoId}
            names == {CategoryOf(expenses[i]).name : i \in named}
            of(n) == {i \in named : CategoryOf(expenses[i]).name = n}
        IN  /\ Len(ec) = Cardinality(names)
            /\ {ec[k].category : k \in 1..Len(ec)} = names
            /\ \A k \in 1..Len(ec) :
                  ec[k].amount = SumAt(Amounts(expenses), of(ec[k].category))
            /\ \A k \in 1..(Len(ec) - 1) : ec[k].amount >= ec[k + 1].amount
            /\ resp.total_expenses = SumAt(Amounts(expenses), ServedExpenses)

\* C4 witness: an expense without a category beside one with a category.
C4_Witness ==
    /\ DashboardOk
    /\ Len(resp.expense_categories) = 1
    /\ resp.expense_categories[1].amount = 500
    /\ resp.total_expenses = 1500

Remaining(entry) == entry.total_amount - entry.paid_amount

\* C5: debt_progress is in non-increasing order of total_amount - paid_amount
\* and savings_goals in non-decreasing order of progress_percentage.
C5_ProgressOrder ==
    DashboardOk =>
        /\ \A k \in 1..(Len(resp.debt_progress) - 1) :
              Remaining(resp.debt_progress[k]) >= Remaining(resp.debt_progress[k + 1])
        /\ \A k \in 1..(Len(resp.savings_goals) - 1) :
              PctLE(resp.savings_goals[k].progress_percentage,
                    resp.savings_goals[k + 1].progress_percentage)

\* C5 witness: two debts of equal total, the one that is half paid listed last.
C5_Witness ==
    /\ DashboardOk
    /\ Len(resp.debt_progress) = 2
    /\ resp.debt_progress[1].total_amount = resp.debt_progress[2].total_amount
    /\ Remaining(resp.debt_progress[1]) > Remaining(resp.debt_progress[2])

\* The user's debts whose amount is 0.
ZeroDebts == {i \in 1..Len(debts) : debts[i].user = req.user /\ debts[i].amount = 0}

\* C6: a debt whose amount is 0 has no entry in debt_progress, whatever its
\* paid_amount is: the entries are the user's debts of positive amount, so no
\* division by zero takes place.
C6_ZeroDebtNotListed ==
    DashboardOk =>
        /\ \A k \in 1..Len(resp.debt_progress) :
              /\ resp.debt_progress[k].total_amount > 0
              /\ resp.debt_progress[k].paid_percentage.den # 0
              /\ resp.debt_progress[k].period_stats.paid_percentage.den # 0
        /\ Len(resp.debt_progress) =
              Cardinality({i \in 1..Len(debts) :
                              debts[i].user = req.user /\ debts[i].amount > 0})

\* C6 witness: a debt of amount 0 with a paid amount, and an empty debt_progress.
C6_Witness ==
    /\ DashboardOk
    /\ \E i \in ZeroDebts : debts[i].paid_amount > 0
    /\ resp.debt_progress = <<>>

\* C6 as stated: each debt of amount 0 has an entry that reports 0%.
C6_AsStated ==
    DashboardOk =>
        \A i \in ZeroDebts :
            \E k \in 1..Len(resp.debt_progress) :
                /\ resp.debt_progress[k].total_amount = 0
                /\ resp.debt_progress[k].paid_amount = debts[i].paid_amount
                /\ resp.debt_progress[k].paid_percentage.num = 0

\* C7: a custom request whose dates are well formed and whose end_date is
\* before its start_date is accepted, with no bucket and a total income of 0.
C7_ReversedRangeIsEmpty ==
    (/\ DashboardServed
     /\ req.period = "custom"
     /\ AcceptedDateText(req.start_date)
     /\ AcceptedDateText(req.end_date)
     /\ Strptime(req.end_date, "%Y-%m-%d") < Strptime(req.start_date, "%Y-%m-%d"))
    => /\ resp.status = 200
       /\ resp.income_data = <<>>
       /\ resp.total_income = 0

\* C7 witness: a reversed range with an income of the user between its dates.
C7_Witness ==
    /\ DashboardOk
    /\ req.start_date = T_20240302
    /\ req.end_date = T_20240228
    /\ \E i \in 1..Len(incomes) :
          incomes[i].user = req.user /\ incomes[i].date = Ord(2024, 3, 1)
    /\ resp.income_data = <<>>

(***************************************************************************)
(* Properties of the import.  A step with req'.kind = "import" is a step   *)
(* of one of the two views; req'.file is the file it was given.            *)
(***************************************************************************)
\* The file passed the checks made before it is read, and decodes.
Readable(file) == FileCheck(file) = <<>> /\ file.utf8

\* C8: in both views a file whose header lacks a required field is answered
\* with the error that names the missing fields, in the order date, type,
\* category, name, amount, and the Record Store is left as it was.
C8_MissingFieldsNamed ==
    [][(/\ req'.kind = "import"
        /\ Readable(req'.file)
        /\ \E f \in Range(required_fields) : f \notin Range(req'.file.header))
       => /\ resp'.status = 400
          /\ resp'.error = <<"Missing required fields: ">>
                              \o JoinComma(MissingFields(req'.file.header))
          /\ store' = store]_vars

HasCsvSuffix(name) ==
    Len(name) >= 4 /\ SubSeq(name, Len(name) - 3, Len(name)) = <<".", "c", "s", "v">>

FileCheckErrors == {Err_NoFile, Err_NotCsv, Err_TooLarge}

\* C9: an import request without a file, with a file whose name does not end
\* in .csv, or with a file of more than 5 MiB (5242880 bytes) is answered 400
\* by the checks made before the file is read and leaves the Record Store as
\* it was; a .csv file of exactly 5 MiB is not refused by these checks.
C9_FileChecks ==
    [][req'.kind = "import" =>
        LET f == req'.file
        IN  /\ (~f.present \/ ~HasCsvSuffix(f.name) \/ f.size > 5242880)
                  => /\ resp'.status = 400
                     /\ resp'.error \in FileCheckErrors
                     /\ store' = store
            /\ (f.present /\ HasCsvSuffix(f.name) /\ f.size = 5242880)
                  => ~(resp'.status = 400 /\ resp'.error \in FileCheckErrors)]_vars

\* C9 witness: a .csv file of exactly 5 MiB has been imported.
C9_Witness ==
    /\ req.kind = "import"
    /\ req.file.size = 5242880
    /\ resp.status = 201
    /\ resp.imported_count.income = 1
    /\ incomes # <<>>

\* The rows of the file that create a record when they are imported alone.
ImportingRows(r) ==
    {k \in 1..Len(r.file.rows) :
        IF r.view = "api"
        THEN Row2(r.user, r.file.header, r.file.rows[k]).outcome \in {"income", "expense"}
        ELSE Row4(r.user, r.file.header, r.file.rows[k]).outcome \in CATEGORY_TYPES}

\* C10: in both views, a file with a complete header and a data row is
\* answered 201 and leaves in the Record Store one more record for each of its
\* rows that passes validation, whatever rows come before or after it.
C10_RowsOnlySkipped ==
    [][(/\ req'.kind = "import"
        /\ Readable(req'.file)
        /\ MissingFields(req'.file.header) = <<>>
        /\ DataRows(req'.file) # <<>>)
       => /\ resp'.status = 201
          /\ NumRecords' = NumRecords + Cardinality(ImportingRows(req'))]_vars

\* C11: in both views, every file that passes the checks of the file and of
\* its header is answered 201 with message and imported_count, also when it
\* holds no data row or none of its rows is imported.
C11_ValidFileAnswered201 ==
    [][(/\ req'.kind = "import"
        /\ Readable(req'.file)
        /\ MissingFields(req'.file.header) = <<>>)
       => /\ resp'.status = 201
          /\ DOMAIN resp' = {"kind", "status", "message", "imported_count"}]_vars


(***************************************************************************)
(* Properties of api.views.ImportDataView (incomes and expenses).          *)
(***************************************************************************)
\* The places in the file of the rows that pass the validation of the view
\* for the given type, in the order of the file.
PassingRows2(r, type) ==
    SelectSeq([k \in 1..Len(r.file.rows) |-> k],
              LAMBDA k : Row2(r.user, r.file.header, r.file.rows[k]).outcome = type)

\* The table after the import holds the rows it held, followed by one row for
\* each passing row of the file, in order, owned by the requesting user and
\* with the row's amount.
Imported2(r, before, after, type) ==
    LET rows == PassingRows2(r, type)
    IN  /\ Len(after) = Len(before) + Len(rows)
        /\ SubSeq(after, 1, Len(before)) = before
        /\ \A j \in 1..Len(rows) :
              LET new  == after[Len(before) + j]
                  made == Row2(r.user, r.file.header, r.file.rows[rows[j]]).data
              IN  /\ new.user = r.user
                  /\ new.amount = made.amount
                  /\ new.date = made.date
                  /\ new.category = made.category

RowOutcome(r, values) ==
    IF r.view = "api" THEN Row2(r.user, r.file.header, values)
    ELSE Row4(r.user, r.file.header, values)

\* The amount field of a row; NoText when the row is too short to have one.
AmountField(header, values) == RowDict(header, values)["amount"]

\* The places of the rows whose amount carries a '#'.
HashRows(r) ==
    {k \in 1..Len(r.file.rows) :
        /\ "amount" \in Range(r.file.header)
        /\ AmountField(r.file.header, r.file.rows[k]) # NoText
        /\ "#" \in Range(AmountField(r.file.header, r.file.rows[k]))}

\* The row with every '#' taken out of its amount.
WithoutHash(header, values) ==
    [i \in 1..Len(values) |->
        IF i = FieldIndex(header, "amount") THEN RemoveChar(values[i], "#") ELSE values[i]]

\* The records of all four tables.
AllRecords(in, ex, de, sa) == Range(in) \cup Range(ex) \cup Range(de) \cup Range(sa)

\* The amount of a record: of a savings goal, its target.
AmountOf(x) == IF "amount" \in DOMAIN x THEN x.amount ELSE x.target_amount

\* C13: in both views a row whose amount carries a '#', and which passes
\* validation once the '#' is taken out, is not skipped: the import is
\* answered 201 and adds a record whose amount is the number that remains
\* ("#50" gives 50).
C13_HashStripped ==
    [][(/\ req'.kind = "import"
        /\ Readable(req'.file)
        /\ MissingFields(req'.file.header) = <<>>)
       => \A k \in HashRows(req') :
            LET clean == WithoutHash(req'.file.header, req'.file.rows[k])
            IN  RowOutcome(req', clean).outcome \in CATEGORY_TYPES
                => /\ resp'.status = 201
                   /\ \E x \in AllRecords(incomes', expenses', debts', savings')
                              \ AllRecords(incomes, expenses, debts, savings) :
                         /\ x.user = req'.user
                         /\ AmountOf(x) = FloatOfText(AmountField(req'.file.header, clean)).val]_vars

\* The texts of the types a view imports.
SupportedTypes(view) ==
    IF view = "api" THEN {T_income, T_expense}
    ELSE {T_income, T_expense, T_debt, T_saving}

\* The places of the rows that have a type and whose type, in lower case (and
\* without the blanks around it in api.views), is none the view imports.
UnsupportedRows(r) ==
    {k \in 1..Len(r.file.rows) :
        LET values == r.file.rows[k]
            ty     == RowDict(r.file.header, values)["type"]
        IN  /\ "type" \in Range(r.file.header)
            /\ AnyValue(r.file.header, values)
            /\ ty # NoText
            /\ (IF r.view = "api" THEN Strip(Lower(ty)) ELSE Lower(ty))
                  \notin SupportedTypes(r.view)}

\* The file without the rows at the given places.
WithoutRows(file, places) ==
    [file EXCEPT !.rows = SelectSeq([k \in 1..Len(file.rows) |->
                                        IF k \in places THEN <<>> ELSE file.rows[k]],
                                    LAMBDA v : v # <<>>)]

\* What the view of request r answers to the file and leaves in the tables.
ImportResult(r, file) ==
    IF r.view = "api"
    THEN LET out == Import2(r.user, file)
         IN  [resp |-> out.resp,
              tables |-> [incomes |-> out.incomes, expenses |-> out.expenses,
                          debts |-> debts, savings |-> savings]]
    ELSE Import4(r.user, file)

\* C14: the rows whose type is none the view imports make no difference to an
\* import: the answer and the tables are those of the same file without these
\* rows, so such a row adds no record, counts nowhere, raises no error and
\* leaves the rows after it to be worked on; a file that holds no other row is
\* answered 201 with every count 0 and the tables as they were.
C14_UnsupportedTypeSkipped ==
    [][(/\ req'.kind = "import"
        /\ Readable(req'.file)
        /\ MissingFields(req'.file.header) = <<>>
        /\ UnsupportedRows(req') # {})
       => LET rest == WithoutRows(req'.file, UnsupportedRows(req'))
          IN  IF rest.rows # <<>>
              THEN /\ resp' = ImportResult(req', rest).resp
                   /\ <<incomes', expenses', debts', savings'>> =
                         LET t == ImportResult(req', rest).tables
                         IN  <<t.incomes, t.expenses, t.debts, t.savings>>
              ELSE /\ resp'.status = 201
                   /\ \A kind \in DOMAIN resp'.imported_count :
                         resp'.imported_count[kind] = 0
                   /\ store' = store]_vars

\* C14 witness: a file whose first row has the type transfer and whose second
\* row, of type INCOME, has been imported.
C14_Witness ==
    /\ req.kind = "import"
    /\ UnsupportedRows(req) = {1}
    /\ Len(req.file.rows) = 2
    /\ resp.status = 201
    /\ resp.imported_count.income = 1
    /\ Len(incomes) = 1 /\ incomes[1].date = Ord(2024, 1, 3)

(***************************************************************************)
(* Properties of the users' independence.                                  *)
(***************************************************************************)
\* The rows of a table owned by user u, and the rows owned by the others.
RowsOf(table, u) == SelectSeq(table, LAMBDA x : x.user = u)
RowsOfOthers(table, u) == SelectSeq(table, LAMBDA x : x.user # u)

\* The rows of the Record Store owned by user u.
OwnRows(u) ==
    <<RowsOf(incomes, u), RowsOf(expenses, u), RowsOf(debts, u), RowsOf(savings, u)>>

\* The responses the dashboard may give user u for each of SharedPeriods.
SharedAnswers(u) ==
    [p \in SharedPeriods |-> DashboardResponses(u, p, NoText, NoText, SharedClock)]

\* The table after the step holds the rows it held, followed by rows of user u.
OnlyAdds(before, after, u) ==
    /\ Len(after) >= Len(before)
    /\ SubSeq(after, 1, Len(before)) = before
    /\ \A k \in (Len(before) + 1)..Len(after) : after[k].user = u

\* C15: a step that changes the Record Store and leaves the rows of user A and
\* the catalog as they were leaves the dashboard's answers to A as they were,
\* whatever it does to the rows of other users; and a create or an import by a user only adds rows
\* owned by that user and changes no row of another user.
C15_UsersIndependent ==
    [][/\ \A a \in Users :
            (store' # store /\ OwnRows(a)' = OwnRows(a) /\ categories' = categories)
                => SharedAnswers(a)' = SharedAnswers(a)
       /\ req'.kind \in {"create", "import"}
            => /\ OnlyAdds(incomes, incomes', req'.user)
               /\ OnlyAdds(expenses, expenses', req'.user)
               /\ OnlyAdds(debts, debts', req'.user)
               /\ OnlyAdds(savings, savings', req'.user)
               /\ \A a \in Users \ {req'.user} : OwnRows(a)' = OwnRows(a)]_vars

\* C15 witness: the dashboard has answered alice while bob owned an income and
\* an expense dated in her window, and reported her figures only.
C15_Witness ==
    /\ DashboardOk
    /\ req.user = "alice"
    /\ RowsOf(incomes, "alice") # <<>>
    /\ RowsOf(incomes, "bob") # <<>>
    /\ RowsOf(expenses, "bob") # <<>>
    /\ resp.total_income = SumSeq(Amounts(RowsOf(incomes, "alice")))
    /\ resp.total_expenses = 0

(***************************************************************************)
(* Properties of the debts endpoint.                                       *)
(***************************************************************************)
\* C16: after any sequence of create and update requests that DebtSerializer
\* accepts, every stored debt has paid_amount <= amount: a request that would
\* leave a debt with more paid than owed is rejected and the debt stays as it
\* was.
C16_PaidWithinAmount ==
    \A i \in 1..Len(debts) : debts[i].paid_amount <= debts[i].amount

(***************************************************************************)
(* Properties of the categories endpoint.                                  *)
(***************************************************************************)
WritingActions == {"create", "update", "partial_update", "destroy"}

\* The request asks for something the serializer accepts of a category that
\* exists (of no category, for a create), judged on the catalog before it.
WellFormed(r) ==
    /\ r.action # "create" => \E c \in categories : c.id = r.id
    /\ r.action \in {"create", "update"} =>
          /\ r.data.type \in CATEGORY_TYPES
          /\ r.data.name # <<>>
    /\ r.action = "partial_update" /\ "type" \in DOMAIN r.data =>
          r.data.type \in CATEGORY_TYPES
    /\ r.action = "partial_update" /\ "name" \in DOMAIN r.data => r.data.name # <<>>
    /\ r.action # "destroy" /\ "name" \in DOMAIN r.data =>
          \A c \in categories : c.name = r.data.name => c.id = r.id

\* The catalog after the step shows what the request asked for.
CarriedOut(r, before, after) ==
    CASE r.action = "create" ->
            /\ Cardinality(after) = Cardinality(before) + 1
            /\ before \subseteq after
            /\ \E c \in after \ before : c.name = r.data.name /\ c.type = r.data.type
      [] r.action = "destroy" ->
            /\ after \subseteq before
            /\ {c.id : c \in before} \ {c.id : c \in after} = {r.id}
      [] OTHER ->
            /\ {c.id : c \in after} = {c.id : c \in before}
            /\ \A c \in after :
                  IF c.id # r.id THEN c \in before
                  ELSE \A f \in DOMAIN r.data : c[f] = r.data[f]

\* C17: a create, update, partial_update or destroy on the categories endpoint
\* by a user who is no admin is refused and leaves the catalog (and the rest
\* of the Record Store) as it was; the same request by an admin, when it is
\* well formed, is answered 2xx and carried out.
C17_OnlyAdminsWriteCategories ==
    [][(req'.kind = "category" /\ req'.action \in WritingActions)
       => IF req'.user \notin Admins
          THEN resp'.status \in {403, 405} /\ store' = store
          ELSE WellFormed(req')
                  => /\ resp'.status \in {200, 201, 204}
                     /\ CarriedOut(req', categories, categories')]_vars

\* C17 witness: after the admin has added a category and deleted the one an
\* expense was filed under, a user's request to delete a category is refused.
C17_Witness ==
    /\ req.kind = "category" /\ req.action = "destroy" /\ req.user = "alice"
    /\ resp.status = 405
    /\ \E c \in categories : c.name = T_Gym
    /\ 1 \notin {c.id : c \in categories}
    /\ expenses # <<>> /\ expenses[1].category = NoId

(***************************************************************************)
(* Properties of the income series.                                        *)
(***************************************************************************)
\* The request in service is accepted and its window is bucketed by month:
\* the period is year, or custom with a span of more than 365 days.
ServedByMonth ==
    /\ DashboardServed
    /\ ServedWindow.status = 200
    /\ \/ req.period = "year"
       \/ req.period = "custom" /\ ServedWindow.end - ServedWindow.start > 365

\* The number of a calendar month, counted from January of year 0.
MonthNumber(n) == YearOf(n) * 12 + MonthOf(n) - 1

\* The label of the month of that number.
MonthLabel(k) == <<MonthNames[(k % 12) + 1], k \div 12>>

\* C18: when the window is bucketed by month, income_data holds one bucket for
\* every calendar month from the month of start to the month of end, in
\* order, the months that lie partly in the window included; for period=year
\* these are the twelve months of the current year.
C18_EveryMonthHasBucket ==
    ServedByMonth =>
        /\ resp.status = 200
        /\ Len(resp.income_data) =
              MonthNumber(ServedWindow.end) - MonthNumber(ServedWindow.start) + 1
        /\ \A k \in 1..Len(resp.income_data) :
              resp.income_data[k].date = MonthLabel(MonthNumber(ServedWindow.start) + k - 1)
        /\ req.period = "year" =>
              /\ Len(resp.income_data) = 12
              /\ resp.income_data[1].date = <<"January", YearOf(req.now)>>
              /\ resp.income_data[12].date = <<"December", YearOf(req.now)>>

\* The request in service is answered 200 and its window is bucketed by day:
\* the period is not year and the span is at most 365 days.
ServedByDay ==
    /\ DashboardOk
    /\ req.period # "year"
    /\ ServedWindow.end - ServedWindow.start <= 365

\* The requesting user's incomes dated the given day.
IncomesOn(day) ==
    {i \in 1..Len(incomes) : incomes[i].user = req.user /\ incomes[i].date = day}

\* C19: when the window is bucketed by day, income_data holds one bucket for
\* every day from start to end, both included, in order, labelled with the
\* day, the full name of the month and the year, and the amount of a bucket is
\* the sum of the requesting user's incomes dated that day, 0 when there is
\* none.
C19_EveryDayHasBucket ==
    ServedByDay =>
        LET start == ServedWindow.start
            days  == IF ServedWindow.end >= start THEN ServedWindow.end - start + 1 ELSE 0
        IN  /\ Len(resp.income_data) = days
            /\ \A k \in 1..days :
                  /\ resp.income_data[k].date =
                        <<DayOf(start + k - 1), MonthNames[MonthOf(start + k - 1)],
                          YearOf(start + k - 1)>>
                  /\ resp.income_data[k].amount =
                        SumAt(Amounts(incomes), IncomesOn(start + k - 1))

\* C19 witness: a custom range of exactly 365 days across the leap day, served
\* with 366 buckets, the one of 2024-02-27 holding two incomes.
C19_Witness ==
    /\ ServedByDay
    /\ req.start_date = T_20230301 /\ req.end_date = T_20240229
    /\ Len(resp.income_data) = 366
    /\ resp.income_data[364].date = <<27, "February", 2024>>
    /\ resp.income_data[364].amount = 1500
    /\ resp.income_data[366].amount = 0

\* The requesting user's incomes dated in the served window.
ServedIncomes ==
    {i \in 1..Len(incomes) :
        /\ incomes[i].user = req.user
        /\ incomes[i].date >= ServedWindow.start
        /\ incomes[i].date <= ServedWindow.end}

\* C20: in every accepted dashboard response, whether bucketed by day or by
\* month, total_income is the sum of the requesting user's incomes dated from
\* start to end of the window; an income dated before start or after end
\* adds nothing to it.
C20_TotalIncomeInsideWindow ==
    DashboardOk => resp.total_income = SumAt(Amounts(incomes), ServedIncomes)

\* C21: monthly bucketing always ends with a bucket list: for period=year and
\* for every well-formed custom range of more than 365 days, a start on day
\* 29, 30 or 31 of a month included, stepping from month to month succeeds
\* and the dashboard answers 200 with the data, never 500.
C21_MonthSteppingSucceeds ==
    ServedByMonth => resp.status = 200 /\ resp.income_data # <<>>

(***************************************************************************)
(* Properties of the expense rankings.                                     *)
(***************************************************************************)
\* What top_expenses shows of the expense at index i.
Shown(i) ==
    [name     |-> IF expenses[i].name = <<>> THEN T_Unnamed ELSE expenses[i].name,
     amount   |-> expenses[i].amount,
     category |-> IF expenses[i].category = NoId THEN T_Uncategorized
                  ELSE CategoryOf(expenses[i]).name,
     date     |-> <<DayOf(expenses[i].date), MonthNames[MonthOf(expenses[i].date)],
                    YearOf(expenses[i].date)>>]

\* The places of a list that hold the entry e, and the served expenses shown as e.
PlacesOf(list, e) == {k \in 1..Len(list) : list[k] = e}
ShownAs(e) == {i \in ServedExpenses : Shown(i) = e}

\* C22: top_expenses holds min(5, n) entries, n the number of the user's
\* expenses in the window; they are in non-increasing order of amount; each is
\* one of those expenses, shown with "Unnamed Expense" for an empty name and
\* "Uncategorized" for no category, no expense shown twice; and every expense
\* of the window with an amount above the smallest amount listed is listed.
C22_TopExpenses ==
    DashboardOk =>
        LET top == resp.top_expenses
            n   == Cardinality(ServedExpenses)
        IN  /\ Len(top) = IF n < 5 THEN n ELSE 5
            /\ \A k \in 1..(Len(top) - 1) : top[k].amount >= top[k + 1].amount
            /\ \A k \in 1..Len(top) :
                  Cardinality(PlacesOf(top, top[k])) <= Cardinality(ShownAs(top[k]))
            /\ \A i \in ServedExpenses :
                  (top # <<>> /\ expenses[i].amount > top[Len(top)].amount) =>
                      Cardinality(PlacesOf(top, Shown(i))) = Cardinality(ShownAs(Shown(i)))

\* C22 witness: seven expenses in January, 30.00, 20.00 twice and 10.00 three
\* times among them; the fifth place holds the one of 10.00 without name and
\* category, and the expense of March is not listed.
C22_Witness ==
    /\ DashboardOk
    /\ req.period = "month"
    /\ Cardinality(ServedExpenses) = 7
    /\ Len(expenses) = 8
    /\ Len(resp.top_expenses) = 5
    /\ resp.top_expenses[1].amount = 3000
    /\ resp.top_expenses[1].date = <<1, "January", 2024>>
    /\ resp.top_expenses[5] = [name |-> T_Unnamed, amount |-> 1000,
                               category |-> T_Uncategorized,
                               date |-> <<3, "January", 2024>>]

\* What a related_expenses items list shows of the expense at index i.
ShownItem(i) ==
    [name   |-> IF expenses[i].name = <<>> THEN T_Unnamed ELSE expenses[i].name,
     amount |-> expenses[i].amount,
     date   |-> <<DayOf(expenses[i].date), MonthNames[MonthOf(expenses[i].date)],
                  YearOf(expenses[i].date)>>]

\* The served expenses of the category named c, and those of them shown as v.
ServedIn(c) ==
    {i \in ServedExpenses : expenses[i].category # NoId /\ CategoryOf(expenses[i]).name = c}
ItemShownAs(c, v) == {i \in ServedIn(c) : ShownItem(i) = v}

\* The places of top_expenses that show v in the category c.
TopPlaces(c, v) ==
    {k \in 1..Len(resp.top_expenses) :
        resp.top_expenses[k] = [name |-> v.name, amount |-> v.amount,
                                category |-> c, date |-> v.date]}

\* The number of places v takes in top_expenses and in the items of entry e.
Listed(e, v) ==
    Cardinality(TopPlaces(e.category, v)) + Cardinality(PlacesOf(e.items, v))

\* C23: for every entry of related_expenses, its items are at most 3, are
\* expenses of that category in the window, none of them also in
\* top_expenses (an expense is listed once, top_expenses and the items taken
\* together), and they are the highest of the category after the top five:
\* an expense of the category with an amount above the smallest item, and
\* every expense of the category when the items are fewer than 3, is listed.
C23_RelatedItems ==
    DashboardOk =>
        \A k \in 1..Len(resp.related_expenses) :
            LET e == resp.related_expenses[k]
            IN  /\ Len(e.items) <= 3
                /\ \A j \in 1..Len(e.items) :
                      Listed(e, e.items[j]) <= Cardinality(ItemShownAs(e.category, e.items[j]))
                /\ \A i \in ServedIn(e.category) :
                      (Len(e.items) < 3
                       \/ expenses[i].amount > e.items[Len(e.items)].amount) =>
                          Listed(e, ShownItem(i))
                              = Cardinality(ItemShownAs(e.category, ShownItem(i)))

\* The places of top_expenses whose category is shown as c.
TopPlacesIn(c) == {k \in 1..Len(resp.top_expenses) : resp.top_expenses[k].category = c}

\* C24: related_expenses holds at most one entry for a category, each for a
\* category shown in top_expenses; an entry's total is the sum of the
\* expenses of that category in the window; the entries are in non-increasing
\* order of total; and an entry is there only for a category with an expense
\* left after the top five: it has at least one item, the label
\* "Uncategorized" never has an entry, and neither has a category whose
\* expenses are all above the fifth amount of top_expenses.
C24_RelatedEntries ==
    DashboardOk =>
        LET rel == resp.related_expenses
            top == resp.top_expenses
        IN  /\ \A j, k \in 1..Len(rel) : rel[j].category = rel[k].category => j = k
            /\ \A k \in 1..Len(rel) :
                  /\ TopPlacesIn(rel[k].category) # {}
                  /\ rel[k].total = SumAt(Amounts(expenses), ServedIn(rel[k].category))
                  /\ rel[k].items # <<>>
                  /\ rel[k].category # T_Uncategorized
                  /\ Len(top) = 5
                  /\ \E i \in ServedIn(rel[k].category) :
                        expenses[i].amount <= top[5].amount
            /\ \A k \in 1..(Len(rel) - 1) : rel[k].total >= rel[k + 1].total

\* C24 witness: six expenses, the five highest of Food and Rent; Rent has
\* none left and no entry, Food has one left and the total of its four.
C24_Witness ==
    /\ DashboardOk
    /\ Len(expenses) = 6
    /\ TopPlacesIn(T_Rent) # {}
    /\ Len(resp.related_expenses) = 1
    /\ resp.related_expenses[1].category = T_Food
    /\ resp.related_expenses[1].total = 6550
    /\ Len(resp.related_expenses[1].items) = 1
    /\ resp.related_expenses[1].items[1].amount = 550

(***************************************************************************)
(* Properties of the debt progress and of the totals.                      *)
(***************************************************************************)
\* The name hay contains the name needle whatever the case of their letters.
ContainsAnyCase(hay, needle) ==
    \E k \in 0..(Len(hay) - Len(needle)) :
        \A j \in 1..Len(needle) : LowerChar(hay[k + j]) = LowerChar(needle[j])

\* The requesting user's expenses of the window in a category of type debt
\* whose name contains the given name.
PaymentsTo(name) ==
    {i \in ServedExpenses :
        /\ expenses[i].category # NoId
        /\ CategoryOf(expenses[i]).type = "debt"
        /\ ContainsAnyCase(expenses[i].name, name)}

\* The requesting user's debts with an amount above 0.
ActiveDebts == {i \in 1..Len(debts) : debts[i].user = req.user /\ debts[i].amount > 0}

\* The entry debt_progress is to hold for the debt at index i.
ProgressOf(i) ==
    LET paid == SumAt(Amounts(expenses), PaymentsTo(debts[i].name))
    IN  [name |-> debts[i].name,
         period_paid |-> paid,
         period_percentage |-> [num |-> paid * 100, den |-> debts[i].amount],
         remaining |-> debts[i].amount - debts[i].paid_amount]

\* What an entry of debt_progress says of these.
ProgressSaid(e) ==
    [name |-> e.name,
     period_paid |-> e.period_stats.paid_amount,
     period_percentage |-> e.period_stats.paid_percentage,
     remaining |-> e.period_stats.remaining_amount]

ActiveGoals ==
    {i \in 1..Len(savings) : savings[i].user = req.user /\ savings[i].target_amount > 0}

\* C26: total_debt is the sum of total_amount over the entries of
\* debt_progress, which are the user's debts with amount above 0, the fully
\* paid ones included; total_savings is the sum of current_amount over the
\* entries of savings_goals, which are the user's goals with a target above 0.
C26_TotalsFromLists ==
    DashboardOk =>
        LET dp == resp.debt_progress
            sg == resp.savings_goals
        IN  /\ resp.total_debt = SumAt([k \in 1..Len(dp) |-> dp[k].total_amount], 1..Len(dp))
            /\ Len(dp) = Cardinality(ActiveDebts)
            /\ resp.total_debt = SumAt([i \in 1..Len(debts) |-> debts[i].amount], ActiveDebts)
            /\ resp.total_savings
                  = SumAt([k \in 1..Len(sg) |-> sg[k].current_amount], 1..Len(sg))
            /\ Len(sg) = Cardinality(ActiveGoals)
            /\ resp.total_savings
                  = SumAt([i \in 1..Len(savings) |-> savings[i].current_amount], ActiveGoals)

\* C26 witness: a debt fully paid is counted in total_debt, and a goal with a
\* target of 0 and 5.00 saved is in no list and no total.
C26_Witness ==
    /\ DashboardOk
    /\ Len(debts) = 1 /\ debts[1].user = "alice" /\ debts[1].paid_amount = 1000
    /\ Len(savings) = 1 /\ savings[1].user = "alice" /\ savings[1].current_amount = 500
    /\ savings[1].target_amount = 0
    /\ resp.total_debt = 1000
    /\ Len(resp.debt_progress) = 1
    /\ resp.total_savings = 0
    /\ resp.savings_goals = <<>>

(***************************************************************************)
(* Properties of the records an import creates.  In SpecImport every       *)
(* record of the store was created by an import.                           *)
(***************************************************************************)
\* Every row of the table has a category, and one of the given type.
CategoryMatches(table, type) ==
    \A i \in 1..Len(table) :
        /\ table[i].category # NoId
        /\ \E c \in categories : c.id = table[i].category /\ c.type = type

\* C27: in both import views a row whose category name and type match no
\* category is skipped: no import creates a record without category or with
\* a category of another type than the record's.
C27_ImportedCategoryMatches ==
    /\ CategoryMatches(incomes, "income")
    /\ CategoryMatches(expenses, "expense")
    /\ CategoryMatches(debts, "debt")
    /\ CategoryMatches(savings, "saving")

\* The date field of a row; NoText when the row is too short to have one.
DateField(header, values) == RowDict(header, values)["date"]

\* The row with the given text as its date.
WithDate(header, values, text) ==
    [i \in 1..Len(values) |-> IF i = FieldIndex(header, "date") THEN text ELSE values[i]]

\* The places of the rows that make an income or an expense when their date
\* is written 2024-01-01: nothing but the date can have them skipped.
DatedRows(r) ==
    {k \in 1..Len(r.file.rows) :
        /\ DateField(r.file.header, r.file.rows[k]) # NoText
        /\ RowOutcome(r, WithDate(r.file.header, r.file.rows[k], T_20240101)).outcome
              \in {"income", "expense"}}

\* The day a row's date stands for: the first of YYYY-MM-DD, MM/DD/YYYY and
\* DD/MM/YYYY that parses it, NoDate when none does.
ClaimedDay(r, k) == FirstDate(DateField(r.file.header, r.file.rows[k]))

\* The incomes and expenses an import has added.
NewDated(before, after) == {after[i] : i \in (Len(before) + 1)..Len(after)}

\* C28: in both views a row's date is parsed with YYYY-MM-DD, then MM/DD/YYYY,
\* then DD/MM/YYYY, the first that parses it giving the day ("01/02/2024" is
\* 2 January and "13/02/2024" is 13 February): of a file all of whose rows
\* nothing but the date could have skipped, every row whose date parses adds
\* a record of that day, and the import adds no other record.
C28_DateFormats ==
    [][(/\ req'.kind = "import"
        /\ Readable(req'.file)
        /\ MissingFields(req'.file.header) = <<>>
        /\ req'.file.rows # <<>>
        /\ DatedRows(req') = 1..Len(req'.file.rows))
       => /\ resp'.status = 201
          /\ \A k \in DatedRows(req') :
                ClaimedDay(req', k) # NoDate
                => \E x \in NewDated(incomes, incomes') \cup NewDated(expenses, expenses') :
                      x.user = req'.user /\ x.date = ClaimedDay(req', k)
          /\ NumRecords' = NumRecords
                + Cardinality({k \in DatedRows(req') : ClaimedDay(req', k) # NoDate})]_vars

\* C29: amounts are parsed as numbers that are not negative: after any number
\* of imports in either view no income, expense or debt has a negative amount
\* and no savings goal a negative target.
C29_NoNegativeAmount ==
    \A x \in AllRecords(incomes, expenses, debts, savings) : AmountOf(x) >= 0

(***************************************************************************)
(* Properties of the expenses endpoint.                                    *)
(***************************************************************************)
\* The ids of the expenses the user owns.
OwnExpenseIds(u) == {expenses[i].id : i \in {j \in 1..Len(expenses) : expenses[j].user = u}}

\* C30: every expense a user has created through the expenses endpoint, one
\* created without category included, is there for that user afterwards:
\* the list holds it, and reading, changing or deleting it by id is not
\* answered 404.
C30_OwnExpensesReachable ==
    [][(req'.kind = "expense")
       => /\ req'.action = "list" => resp'.ids = OwnExpenseIds(req'.user)
          /\ (req'.action # "list" /\ req'.id \in OwnExpenseIds(req'.user))
                => resp'.status # 404]_vars

=============================================================================
